---- MODULE Spec2Model ----
(***************************************************************************)
(* Model of the Outblog Shopify app: the dashboard route's action handler  *)
(* (saveApiKey, fetchBlogs, checkLiveStatus, publishToShopify,             *)
(* publishAllToShopify), the dashboard loader, the /api/cron route, the    *)
(* app/uninstalled webhook, and the two content stores (the Prisma-backed  *)
(* DatabaseStore and the in-memory MemoryStore).                           *)
(*                                                                         *)
(* Every JavaScript string is a sequence: strings the code transforms     *)
(* (slug, title) are sequences of one-character strings, opaque strings    *)
(* (content, article ids, status) are one-element sequences.  JavaScript   *)
(* null and undefined are kept apart because Prisma treats them            *)
(* differently in a `data` argument: null writes NULL, undefined leaves    *)
(* the column alone.                                                       *)
(***************************************************************************)
EXTENDS Integers, Sequences, FiniteSets, TLC

\* ---------------------------------------------------------------- bounds
MaxClock == 2      \* the clock runs from 1 to MaxClock
MaxFetch == 2      \* posts in one upstream response
MaxArticles == 2   \* articles the destination creates for one post
MaxPublished == 60   \* published posts a shop starts with, at most

\* ------------------------------------------------------------ JS values
Null == <<"null">>
Undefined == <<"undefined">>

\* JavaScript truthiness of an optional string
Truthy(v) == v # Null /\ v # Undefined /\ v # <<>>

draft == <<"draft">>
published == <<"published">>

Shops == {"s1"}
ApiKeys == {<<>>, <<"k1">>}

\* ------------------------------------------------------- string helpers
Lower(c) ==
    CASE c = "H" -> "h"
      [] c = "W" -> "w"
      [] OTHER -> c

IsSpace(c) == c \in {" ", "\n"}

\* String.prototype.toLowerCase
ToLowerCase(s) == [i \in 1..Len(s) |-> Lower(s[i])]

\* s.replace(/\s+/g, "-"): every maximal run of whitespace becomes one hyphen
RECURSIVE ReplaceSpaceRuns(_)
ReplaceSpaceRuns(s) ==
    IF s = <<>> THEN <<>>
    ELSE IF IsSpace(Head(s))
         THEN IF Len(s) > 1 /\ IsSpace(s[2])
              THEN ReplaceSpaceRuns(Tail(s))
              ELSE <<"-">> \o ReplaceSpaceRuns(Tail(s))
         ELSE <<Head(s)>> \o ReplaceSpaceRuns(Tail(s))

Untitled == <<"U", "n", "t", "i", "t", "l", "e", "d">>
untitled == <<"u", "n", "t", "i", "t", "l", "e", "d">>

\* post.slug || post.title?.toLowerCase().replace(/\s+/g, "-") || "untitled"
SyncSlug(post) ==
    IF post.slug # <<>> THEN post.slug
    ELSE IF ReplaceSpaceRuns(ToLowerCase(post.title)) # <<>>
         THEN ReplaceSpaceRuns(ToLowerCase(post.title))
         ELSE untitled

\* JSON.stringify of a list of strings
JsonStringify(list) == <<"[">> \o list \o <<"]">>

\* --------------------------------------------- upstream (Outblog) posts
\* Posts the source content API may return.  An empty slug or title stands
\* for a missing or empty field (both are falsy in the code); categories
\* and tags stand for blog_meta_data.categories / .tags, Undefined when the
\* upstream post has none.
UpstreamPosts ==
    { [id |-> <<"e1">>, slug |-> <<"a">>, title |-> <<"T">>,
       content |-> <<"c1">>, meta_description |-> <<"m1">>,
       featured_image |-> <<"https", ":", "//", "i", "/1">>,
       categories |-> <<"x">>,
       tags |-> <<"y">>],
      [id |-> <<"e2">>, slug |-> <<"a">>, title |-> <<>>,
       content |-> Undefined, meta_description |-> Undefined,
       featured_image |-> Undefined, categories |-> Undefined,
       tags |-> Undefined],
      [id |-> <<"e3">>, slug |-> <<>>, title |-> <<"H", " ", "W">>,
       content |-> <<"c2">>, meta_description |-> Null,
       featured_image |-> <<"not-a-url">>, categories |-> <<>>,
       tags |-> <<>>] }

\* The `data` argument fetchBlogs builds for upsertBlogPost
SyncData(post) ==
    [externalId |-> post.id,
     slug |-> SyncSlug(post),
     title |-> IF post.title # <<>> THEN post.title ELSE Untitled,
     content |-> post.content,
     metaDescription |-> post.meta_description,
     featuredImage |-> post.featured_image,
     categories |-> JsonStringify(IF Truthy(post.categories)
                                  THEN post.categories ELSE <<>>),
     tags |-> JsonStringify(IF Truthy(post.tags) THEN post.tags ELSE <<>>)]

\* The set of elements of a sequence
Range(seq) == {seq[i] : i \in 1..Len(seq)}

\* articleImage = null: the request has no image
NoImage == [altText |-> Null, url |-> Null]

\* The `blog` variable of a blogCreate mutation: none sent, the one of
\* publishToShopify, the one of publishAllToShopify (it gives no handle)
NoBlogInput == [title |-> Null, handle |-> Null]

PublishOneBlogInput == [title |-> <<"Outblog">>, handle |-> <<"outblog">>]

PublishAllBlogInput == [title |-> <<"Outblog">>, handle |-> Undefined]

\* ------------------------------------------------------ Prisma semantics
\* A `data` argument gives column f a value: the key is there and its value
\* is not undefined (Prisma skips undefined; null is a value and writes NULL)
Given(data, f) == f \in DOMAIN data /\ data[f] # Undefined

\* prisma update: a column that `data` gives no value keeps what it has;
\* the @updatedAt column is refreshed by every update.
PrismaUpdateRow(row, data, t) ==
    [f \in DOMAIN row |->
        IF f = "updatedAt" THEN t
        ELSE IF Given(data, f) THEN data[f]
        ELSE row[f]]

\* A nullable column of a created row: the given value, else the default
Col(data, f, default) == IF Given(data, f) THEN data[f] ELSE default

\* prisma create: a column without a value gets its schema default
\* (NULL, status 'draft', createdAt CURRENT_TIMESTAMP)
PrismaCreateRow(id, shop, data, t) ==
    [id |-> id,
     shop |-> shop,
     externalId |-> Col(data, "externalId", Null),
     slug |-> data.slug,
     title |-> data.title,
     content |-> Col(data, "content", Null),
     metaDescription |-> Col(data, "metaDescription", Null),
     featuredImage |-> Col(data, "featuredImage", Null),
     status |-> Col(data, "status", draft),
     categories |-> Col(data, "categories", Null),
     tags |-> Col(data, "tags", Null),
     shopifyArticleId |-> Col(data, "shopifyArticleId", Null),
     createdAt |-> t,
     updatedAt |-> t]

\* ----------------------------------------------------------------- state
VARIABLES
    now,          \* clock: what new Date() and CURRENT_TIMESTAMP give
    dbSettings,   \* DatabaseStore: ShopSettings rows, keyed by shop
    dbPosts,      \* DatabaseStore: OutblogPost rows, keyed by row id
    nextPostId,   \* next OutblogPost row id
    memShops,     \* MemoryStore.shops
    articles,     \* destination store: articles created so far
    containers,   \* destination store: number of blogs with handle outblog
    lastCall,     \* what the last handled request did and returned
    inflight      \* the requests that are being handled concurrently

vars == <<now, dbSettings, dbPosts, nextPostId, memShops, articles,
          containers, lastCall, inflight>>

\* An absent timestamp (lastSyncAt NULL); the clock starts above it
NoTime == 0

\* The record of a request that did nothing; every handler fills in its own
NoCall ==
    [op |-> "none", shop |-> "none", success |-> FALSE, error |-> "none",
     http |-> 200,
     secret |-> Null,        \* the secret a cron request carried
     env |-> Undefined,      \* process.env.CRON_SECRET when it was handled
     sourceCalls |-> 0,      \* requests sent to the source content API
     upserts |-> 0,          \* upsertBlogPost calls that completed
     syncWrites |-> 0,       \* writes of lastSyncAt
     fetched |-> 0,          \* posts in the upstream response
     containerCreates |-> 0, \* blogCreate mutations sent
     submitted |-> <<>>,     \* row ids whose articleCreate was sent, in order
     responses |-> <<>>,     \* the kind of each articleCreate response
     isPublished |-> <<>>,   \* the isPublished flag of each articleCreate
     count |-> 0,            \* publishedCount
     sent |-> <<>>,          \* the batches of article ids sent by checkLiveStatus
     blogId |-> 0,           \* the blogId of a publishToShopify request
     image |-> NoImage,       \* the image of the articleCreate of publishToShopify
     body |-> Null,          \* the body of the articleCreate of publishToShopify
     blogInput |-> NoBlogInput,  \* the blog of the blogCreate of a publish
     threw |-> FALSE,        \* an exception left the handler: nothing returned
     missing |-> {} ]        \* row ids checkLiveStatus found missing

\* The requests the server can be handling at the same time
Procs == {1, 2}

\* A request that has not arrived: where the handler is (pc), the request,
\* and the handler's local variables
NoRequest ==
    [pc |-> "idle",
     op |-> "none",
     shop |-> "none",
     blogId |-> 0,        \* formData blogId of publishToShopify
     after |-> {},        \* the requests that had returned when it arrived
     todo |-> <<>>,       \* shopSettings.blogs without shopifyArticleId
     sawBlog |-> FALSE,   \* outblogBlog was found by the blogs query
     blogCreates |-> 0,   \* blogCreate mutations sent
     blogOutcome |-> "none",  \* what the blogCreate mutation did
     posts |-> <<>>,      \* data.data.posts of fetchBlogs
     next |-> 1,          \* the post the loop of fetchBlogs is at
     found |-> {},        \* rows the upsert's read found under the slug
     success |-> FALSE,
     error |-> "none"]

NoInflight == [p \in Procs |-> NoRequest]

Init ==
    /\ now = 1
    /\ dbSettings = << >>
    /\ dbPosts = << >>
    /\ nextPostId = 1
    /\ memShops = << >>
    /\ articles = {}
    /\ containers = [s \in Shops |-> 0]
    /\ lastCall = NoCall
    /\ inflight = NoInflight

\* ------------------------------------------------------ DatabaseStore
\* getShopSettings: the row exists
HasSettings(settings, shop) == shop \in DOMAIN settings

\* shopSettings.blogs (include: { blogs: true }): the shop's rows, by row id
BlogsOf(posts, shop) == {id \in DOMAIN posts : posts[id].shop = shop}

\* The ShopSettings row prisma creates: schema defaults, then `data`
NewSettings(data) ==
    [apiKey |-> Col(data, "apiKey", Null),
     postAsDraft |-> IF "postAsDraft" \in DOMAIN data THEN data.postAsDraft
                     ELSE TRUE,
     lastSyncAt |-> IF "lastSyncAt" \in DOMAIN data THEN data.lastSyncAt
                    ELSE NoTime]

\* DatabaseStore.createShopSettings
createShopSettings(settings, shop) ==
    [s \in DOMAIN settings \cup {shop} |->
        IF s = shop THEN NewSettings(<< >>) ELSE settings[s]]

\* DatabaseStore.upsertShopSettings
upsertShopSettings(settings, shop, data) ==
    [s \in DOMAIN settings \cup {shop} |->
        IF s # shop THEN settings[s]
        ELSE IF HasSettings(settings, shop)
             THEN [f \in DOMAIN settings[s] |->
                      IF f \in DOMAIN data THEN data[f] ELSE settings[s][f]]
             ELSE NewSettings(data)]

\* A lookup by slug that finds no row
NoRowsWithSlug(posts, shop, slug) == {}

\* The row with the unique key (shopSettingsId, slug), as a set of row ids
RowsWithSlug(posts, shop, slug) ==
    {id \in BlogsOf(posts, shop) : posts[id].slug = slug}

\* An upsert that replaces the row it finds by a new one, as
\* MemoryStore.upsertBlogPost does
upsertBlogPostReplace(posts, shop, data, id, t) ==
    [r \in DOMAIN posts \cup
              (IF RowsWithSlug(posts, shop, data.slug) = {} THEN {id} ELSE {}) |->
        IF r \in RowsWithSlug(posts, shop, data.slug) \/ r \notin DOMAIN posts
        THEN PrismaCreateRow(r, shop, data, t) ELSE posts[r]]

\* DatabaseStore.upsertBlogPost, for a shop that has settings: prisma upsert
\* on (shopSettingsId, slug)
upsertBlogPost(posts, shop, data, id, t) ==
    IF RowsWithSlug(posts, shop, data.slug) # {}
    THEN [r \in DOMAIN posts |->
             IF r \in RowsWithSlug(posts, shop, data.slug)
             THEN PrismaUpdateRow(posts[r], data, t) ELSE posts[r]]
    ELSE [r \in DOMAIN posts \cup {id} |->
             IF r = id THEN PrismaCreateRow(id, shop, data, t) ELSE posts[r]]

\* A write that deletes the rows instead of updating them
deleteManyBlogPosts(posts, shop, ids, data, t) ==
    [r \in DOMAIN posts \ ids |-> posts[r]]

\* DatabaseStore.updateBlogPost / updateManyBlogPosts: prisma update of the
\* rows of the shop whose id is in ids
updateManyBlogPosts(posts, shop, ids, data, t) ==
    [r \in DOMAIN posts |->
        IF r \in ids /\ posts[r].shop = shop
        THEN PrismaUpdateRow(posts[r], data, t) ELSE posts[r]]

updateBlogPost(posts, shop, id, data, t) ==
    updateManyBlogPosts(posts, shop, {id}, data, t)

\* --------------------------------------------------------------- requests
\* The server handles a request after the response to the one before it has
\* been returned
Idle == lastCall = NoCall

\* return json(...): the response of the handled request is returned
Respond ==
    /\ ~Idle
    /\ lastCall' = NoCall
    /\ UNCHANGED inflight
    /\ UNCHANGED <<now, dbSettings, dbPosts, nextPostId, memShops, articles,
                   containers>>

\* Time passes between two requests
Tick ==
    /\ Idle
    /\ now < MaxClock
    /\ now' = now + 1
    /\ UNCHANGED inflight
    /\ UNCHANGED <<dbSettings, dbPosts, nextPostId, memShops, articles,
                   containers, lastCall>>

\* ------------------------------------------------------ dashboard loader
\* loader: creates the shop's ShopSettings when it has none
Loader(shop) ==
    /\ Idle
    /\ dbSettings' = IF HasSettings(dbSettings, shop) THEN dbSettings
                     ELSE createShopSettings(dbSettings, shop)
    /\ lastCall' = [NoCall EXCEPT !.op = "loader", !.shop = shop,
                                  !.success = TRUE]
    /\ UNCHANGED <<dbPosts, nextPostId, memShops, articles, containers>>
    /\ now' = now
    /\ UNCHANGED inflight

\* ----------------------------------------------------------- saveApiKey
\* What the validation call can do: respond non-OK, respond {valid: false},
\* respond {valid: true}, or throw
ValidateOutcomes == {"nonOK", "invalid", "valid", "throw"}

\* A key that passes when the validation response is OK, whatever it says
CredentialValidIfOK(outcome) == outcome \in {"valid", "invalid"}

\* The key passed both checks: validateResponse.ok and validateData.valid
CredentialValid(outcome) == outcome = "valid"

\* action, _action = saveApiKey.  dbThrows: the settings write throws.
SaveApiKey(shop, apiKey, postAsDraft, outcome, dbThrows) ==
    /\ Idle
    /\ IF CredentialValid(outcome) /\ ~dbThrows
       THEN /\ dbSettings' = upsertShopSettings(dbSettings, shop,
                                [apiKey |-> apiKey, postAsDraft |-> postAsDraft])
            /\ lastCall' = [NoCall EXCEPT !.op = "saveApiKey", !.shop = shop,
                                          !.success = TRUE, !.sourceCalls = 1]
       ELSE /\ dbSettings' = dbSettings
            /\ lastCall' = [NoCall EXCEPT !.op = "saveApiKey", !.shop = shop,
                               !.sourceCalls = 1,
                               !.error = IF outcome = "invalid"
                                         THEN "Invalid API key"
                                         ELSE "Failed to validate API key"]
    /\ UNCHANGED <<dbPosts, nextPostId, memShops, articles, containers>>
    /\ now' = now
    /\ UNCHANGED inflight

\* ----------------------------------------------------------- fetchBlogs
\* What the posts request can do: throw (no response, written 0), or
\* respond with an HTTP status
FetchThrows == 0
FetchOutcomes == {FetchThrows, 401, 403, 429, 500, 404, 200}

FetchError(outcome) ==
    CASE outcome = FetchThrows -> "Failed to fetch blogs from Outblog"
      [] outcome = 401 -> "Invalid API key"
      [] outcome = 403 -> "API access forbidden"
      [] outcome = 429 -> "Rate limit exceeded"
      [] outcome >= 500 -> "Outblog server error"
      [] OTHER -> "Failed to fetch blogs (HTTP)"

\* The responses of the posts request: at most n posts of S, each listed
\* once
Responses(S, n) ==
    UNION {{q \in [1..k -> S] : \A i, j \in 1..k : q[i] = q[j] => i = j} :
              k \in 0..n}

\* The loop of fetchBlogs over the first k posts of the response: the rows
\* and the next row id after k upserts
RECURSIVE UpsertLoop(_, _, _, _, _, _)
UpsertLoop(posts, id, shop, upstream, k, t) ==
    IF k = 0 THEN [posts |-> posts, id |-> id]
    ELSE LET before == UpsertLoop(posts, id, shop, upstream, k - 1, t)
             data == SyncData(upstream[k])
             isNew == RowsWithSlug(before.posts, shop, data.slug) = {}
         IN [posts |-> upsertBlogPost(before.posts, shop, data, before.id, t),
             id |-> IF isNew THEN before.id + 1 ELSE before.id]

\* A guard that only looks for the ShopSettings row
CredentialMissingRowOnly(settings, shop) == ~HasSettings(settings, shop)

\* if (!shopSettings?.apiKey)
CredentialMissing(settings, shop) ==
    ~HasSettings(settings, shop) \/ ~Truthy(settings[shop].apiKey)

\* lastSyncAt written with every upsert instead of once after the loop
SettingsAfterSyncPerPost(settings, shop, upserts, failAt, t) ==
    IF upserts > 0 \/ failAt = 0
    THEN upsertShopSettings(settings, shop, [lastSyncAt |-> t])
    ELSE settings

\* The ShopSettings rows after the loop of fetchBlogs: lastSyncAt is written
\* once, after the loop, when no store call threw (failAt = 0)
SettingsAfterSync(settings, shop, upserts, failAt, t) ==
    IF failAt = 0 THEN upsertShopSettings(settings, shop, [lastSyncAt |-> t])
    ELSE settings

\* action, _action = fetchBlogs.  readThrows: getShopSettings throws (it is
\* called before the try block); outcome: what the posts request does;
\* upstream: the posts of a 200 response; failAt: 0 when no store call
\* throws, k when the k-th upsert throws, Len(upstream) + 1 when the write
\* of lastSyncAt throws.
FetchBlogs(shop, readThrows, outcome, upstream, failAt) ==
    /\ Idle
    /\ IF readThrows
       THEN /\ lastCall' = [NoCall EXCEPT !.op = "fetchBlogs", !.shop = shop,
                               !.threw = TRUE]
            /\ UNCHANGED <<dbSettings, dbPosts, nextPostId>>
       ELSE IF CredentialMissing(dbSettings, shop)
       THEN /\ lastCall' = [NoCall EXCEPT !.op = "fetchBlogs", !.shop = shop,
                               !.error = "API key not configured"]
            /\ UNCHANGED <<dbSettings, dbPosts, nextPostId>>
       ELSE IF outcome # 200
       THEN /\ lastCall' = [NoCall EXCEPT !.op = "fetchBlogs", !.shop = shop,
                               !.sourceCalls = 1, !.error = FetchError(outcome)]
            /\ UNCHANGED <<dbSettings, dbPosts, nextPostId>>
       ELSE LET upserts == IF failAt = 0 THEN Len(upstream) ELSE failAt - 1
                after == UpsertLoop(dbPosts, nextPostId, shop, upstream,
                                    upserts, now)
            IN /\ dbPosts' = after.posts
               /\ nextPostId' = after.id
               /\ dbSettings' = SettingsAfterSync(dbSettings, shop, upserts,
                                                  failAt, now)
               /\ lastCall' = [NoCall EXCEPT !.op = "fetchBlogs",
                                  !.shop = shop, !.sourceCalls = 1,
                                  !.fetched = Len(upstream),
                                  !.upserts = upserts,
                                  !.syncWrites = IF failAt = 0 THEN 1 ELSE 0,
                                  !.success = failAt = 0,
                                  !.error = IF failAt = 0 THEN "none"
                                            ELSE "Database error"]
    /\ UNCHANGED <<memShops, articles, containers>>
    /\ now' = now
    /\ UNCHANGED inflight

\* ------------------------------------------------------ checkLiveStatus
batchSize == 50

\* The elements of a set of row ids in ascending order (the order of
\* shopSettings.blogs)
RECURSIVE SortedIds(_)
SortedIds(S) ==
    IF S = {} THEN <<>>
    ELSE LET m == CHOOSE x \in S : \A y \in S : x <= y
         IN <<m>> \o SortedIds(S \ {m})

\* shopSettings.blogs.filter((b) => b.shopifyArticleId)
BlogsWithArticleId(posts, shop) ==
    SortedIds({id \in BlogsOf(posts, shop) : Truthy(posts[id].shopifyArticleId)})

\* A loop that leaves out the last, partial batch
NumBatchesFloor(n) == n \div batchSize

\* Number of iterations of `for (i = 0; i < n; i += batchSize)`
NumBatches(n) == (n + batchSize - 1) \div batchSize

\* blogsWithArticleId.slice(i, i + batchSize) for the b-th iteration (b >= 1)
Batch(blogs, b) ==
    SubSeq(blogs, (b - 1) * batchSize + 1,
           IF b * batchSize < Len(blogs) THEN b * batchSize ELSE Len(blogs))

\* What a nodes query that does not succeed can do
QueryFailures == {"errors", "throw"}

\* action, _action = checkLiveStatus.  readThrows: getShopSettings throws
\* (it is called before the try block); bad: the batch whose query fails (0:
\* none), failure: how it fails; existing: the article ids the destination
\* returns as Article nodes; dbThrows: updateManyBlogPosts throws.
\* missingIds after the first `batches` iterations of the loop: the rows of
\* those batches whose article id is not among the existing Article nodes
FoundMissing(posts, blogs, existing, batches) ==
    {blogs[i] : i \in {j \in 1..Len(blogs) :
                         /\ j <= batches * batchSize
                         /\ posts[blogs[j]].shopifyArticleId \notin existing}}

\* A loop that writes what it has found before it returns
RowsWrittenPerBatch(posts, shop, found, t) ==
    IF found = {} THEN posts
    ELSE updateManyBlogPosts(posts, shop, found,
             [shopifyArticleId |-> Undefined, status |-> draft], t)

\* The rows when a nodes query reports errors (the return inside the loop)
\* or throws (the catch): updateManyBlogPosts comes after the loop and is
\* not reached, whatever missingIds holds by then
RowsAfterFailedBatch(posts, shop, found, t) == posts

CheckLiveStatus(shop, readThrows, bad, failure, existing, dbThrows) ==
    /\ Idle
    /\ LET blogs == BlogsWithArticleId(dbPosts, shop)
           queried == IF bad = 0 THEN NumBatches(Len(blogs)) ELSE bad
           sent == [b \in 1..queried |->
                       [i \in 1..Len(Batch(blogs, b)) |->
                           dbPosts[Batch(blogs, b)[i]].shopifyArticleId]]
           missingIds == FoundMissing(dbPosts, blogs, existing, queried)
           call == [NoCall EXCEPT !.op = "checkLiveStatus", !.shop = shop]
       IN IF readThrows
          THEN /\ lastCall' = [call EXCEPT !.threw = TRUE]
               /\ dbPosts' = dbPosts
          ELSE IF ~HasSettings(dbSettings, shop)
          THEN /\ lastCall' = [call EXCEPT !.error = "Shop settings not found"]
               /\ dbPosts' = dbPosts
          ELSE IF Len(blogs) = 0
          THEN /\ lastCall' = [call EXCEPT !.success = TRUE]
               /\ dbPosts' = dbPosts
          ELSE IF bad # 0
          THEN /\ lastCall' = [call EXCEPT !.sent = sent,
                                  !.missing = FoundMissing(dbPosts, blogs,
                                                  existing, bad - 1),
                                  !.error = IF failure = "errors"
                                            THEN "GraphQL error"
                                            ELSE "Failed to check live status"]
               /\ dbPosts' = RowsAfterFailedBatch(dbPosts, shop,
                                 FoundMissing(dbPosts, blogs, existing, bad - 1),
                                 now)
          ELSE IF missingIds # {} /\ dbThrows
          THEN /\ lastCall' = [call EXCEPT !.sent = sent,
                                  !.missing = missingIds,
                                  !.error = "Failed to check live status"]
               /\ dbPosts' = dbPosts
          ELSE /\ lastCall' = [call EXCEPT !.sent = sent,
                                  !.missing = missingIds, !.success = TRUE]
               /\ dbPosts' = IF missingIds # {}
                             THEN updateManyBlogPosts(dbPosts, shop, missingIds,
                                     [shopifyArticleId |-> Undefined,
                                      status |-> draft], now)
                             ELSE dbPosts
    /\ UNCHANGED <<dbSettings, nextPostId, memShops, articles, containers>>
    /\ now' = now
    /\ UNCHANGED inflight

\* ------------------------------------------------- the destination store
\* The articles the destination has created for a post (a row id)
ArticlesOf(arts, post) == {a \in arts : a.post = post}

\* The id the destination gives to the n-th article created for a post:
\* ids are opaque and never repeat
ArticleId(post, n) == <<"gid", ToString(post), ToString(n)>>

\* The article the destination creates for an accepted articleCreate
NewArticle(arts, shop, post, isPublished) ==
    [id |-> ArticleId(post, Cardinality(ArticlesOf(arts, post)) + 1),
     shop |-> shop, post |-> post, isPublished |-> isPublished]

\* A lookup that never finds the blog
NoOutblogBlog(shop) == FALSE

\* blogsData.data?.blogs?.edges?.find(edge => edge.node.handle === "outblog")
HasOutblogBlog(shop) == containers[shop] > 0

\* What a blogCreate mutation can do: create the blog, report userErrors,
\* return neither a blog nor userErrors, or throw
BlogCreateOutcomes == {"blog", "userErrors", "noBlog", "throw"}

\* ------------------------------------------------------------- new URL()
\* A URL string is a sequence of pieces: a scheme word, ":", "//", a host,
\* a path.  The schemes whose URLs need a host (the special schemes of the
\* URL standard) and the others
SpecialSchemes == {"http", "https", "ftp"}
OtherSchemes == {"mailto"}

\* The scheme of a piece in lower case, as the parser stores it
LowerScheme(w) ==
    CASE w = "HTTPS" -> "https"
      [] w = "HTTP" -> "http"
      [] OTHER -> w

\* A string without the spaces at its ends (the parser strips them)
RECURSIVE Trim(_)
Trim(s) ==
    IF s = <<>> THEN <<>>
    ELSE IF IsSpace(Head(s)) THEN Trim(Tail(s))
    ELSE IF IsSpace(s[Len(s)]) THEN Trim(SubSeq(s, 1, Len(s) - 1))
    ELSE s

\* new URL(s).protocol, or Null when new URL(s) throws: s has to start with
\* a scheme and ":", and a special scheme has to be followed by a host
UrlProtocol(s) ==
    LET t == Trim(s)
        rest == IF Len(t) >= 3 /\ t[3] = "//" THEN SubSeq(t, 4, Len(t))
                ELSE SubSeq(t, 3, Len(t))
    IN IF Len(t) < 2 \/ t[2] # ":" THEN Null
       ELSE IF LowerScheme(t[1]) \in SpecialSchemes
            THEN IF rest = <<>> THEN Null ELSE <<LowerScheme(t[1]), ":">>
       ELSE IF LowerScheme(t[1]) \in OtherSchemes
            THEN <<LowerScheme(t[1]), ":">>
       ELSE Null

\* blogPost.title?.substring(0, 125) || "Blog post image"
AltText(title) ==
    IF ~Truthy(title) THEN <<"Blog post image">>
    ELSE SubSeq(title, 1, IF Len(title) < 125 THEN Len(title) ELSE 125)

\* An image reference for every featuredImage that is there
ArticleImageUnchecked(row) ==
    IF Truthy(row.featuredImage)
    THEN [altText |-> AltText(row.title), url |-> row.featuredImage]
    ELSE NoImage

\* articleImage: the image reference of the articleCreate request, NoImage
\* when featuredImage is missing, does not parse, or is not http(s)
ArticleImage(row) ==
    IF /\ Truthy(row.featuredImage)
       /\ UrlProtocol(row.featuredImage) \in {<<"http", ":">>, <<"https", ":">>}
    THEN [altText |-> AltText(row.title), url |-> row.featuredImage]
    ELSE NoImage

\* ------------------------------------------- the body of the article
\* Text is a sequence of pieces: the characters the conversion looks at
\* ("#", "*", "[", "]", "(", ")", "!", " ", "\n"), a fence "---", words of
\* other characters, and the HTML the conversion writes, whole.
HtmlPieces ==
    {"<p>", "</p>", "<h1>", "</h1>", "<h2>", "</h2>", "<h3>", "</h3>",
     "<h4>", "</h4>", "<strong>", "</strong>", "<em>", "</em>", "<li>",
     "</li>", "<ul>", "</ul>", "<br>", "<hr>", "<img src=\"", "<a href=\"",
     "</a>"}

Least(S) == IF S = {} THEN 0 ELSE CHOOSE x \in S : \A y \in S : x <= y

Greatest(S) == IF S = {} THEN 0 ELSE CHOOSE x \in S : \A y \in S : x >= y

\* The lines of a text
RECURSIVE SplitLines(_)
SplitLines(s) ==
    LET i == Least({k \in 1..Len(s) : s[k] = "\n"})
    IN IF i = 0 THEN <<s>>
       ELSE <<SubSeq(s, 1, i - 1)>> \o SplitLines(SubSeq(s, i + 1, Len(s)))

RECURSIVE JoinLines(_)
JoinLines(ls) ==
    IF Len(ls) = 1 THEN ls[1]
    ELSE ls[1] \o <<"\n">> \o JoinLines(Tail(ls))

\* A replace with /^...$/gm: F on every line
EachLine(F(_), s) ==
    LET ls == SplitLines(s)
    IN JoinLines([k \in 1..Len(ls) |-> F(ls[k])])

\* .replace(/^---\s[\s\S]*?---\s*/m, ""): the first fence that starts a
\* line and is followed by white space, up to the next fence and the white
\* space after it
StripFrontMatter(s) ==
    LET closes(i) == {j \in (i + 2)..Len(s) : s[j] = "---"}
        opens == {i \in 1..Len(s) :
                     /\ s[i] = "---"
                     /\ i = 1 \/ s[i - 1] = "\n"
                     /\ i + 1 <= Len(s) /\ IsSpace(s[i + 1])
                     /\ closes(i) # {}}
        i == Least(opens)
        j == Least(closes(i))
        k == Least({m \in (j + 1)..(Len(s) + 1) :
                       m = Len(s) + 1 \/ ~IsSpace(s[m])})
    IN IF opens = {} THEN s
       ELSE SubSeq(s, 1, i - 1) \o SubSeq(s, k, Len(s))

\* !cleanContent || cleanContent.trim().length === 0
IsBlank(s) == Trim(s) = <<>>

\* `<p>${blogPost.title || 'Untitled'}</p>`
TitleParagraph(title) ==
    <<"<p>">> \o (IF Truthy(title) THEN title ELSE Untitled) \o <<"</p>">>

\* includes('#') || includes('*') || includes('[')
LooksLikeMarkdown(s) == \E i \in 1..Len(s) : s[i] \in {"#", "*", "["}

\* .replace(/^#{n} (.*$)/gim, '<hn>$1</hn>') on one line
Heading(line, n, open, close) ==
    IF /\ Len(line) >= n + 1
       /\ \A k \in 1..n : line[k] = "#"
       /\ line[n + 1] = " "
    THEN <<open>> \o SubSeq(line, n + 2, Len(line)) \o <<close>>
    ELSE line

Headings(s) ==
    EachLine(LAMBDA l : Heading(l, 1, "<h1>", "</h1>"),
      EachLine(LAMBDA l : Heading(l, 2, "<h2>", "</h2>"),
        EachLine(LAMBDA l : Heading(l, 3, "<h3>", "</h3>"),
          EachLine(LAMBDA l : Heading(l, 4, "<h4>", "</h4>"), s))))

\* .replace(/\*\*(.*?)\*\*/gim, ...) with n = 2 and
\* .replace(/\*(.*?)\*/gim, ...) with n = 1: from the left, n stars, the
\* shortest text on one line, n stars
RECURSIVE Emphasis(_, _, _, _)
Emphasis(s, n, open, close) ==
    LET Stars(i) == i + n - 1 <= Len(s) /\ \A k \in 0..(n - 1) : s[i + k] = "*"
        ends(i) == {j \in (i + n)..Len(s) :
                       Stars(j) /\ \A k \in (i + n)..(j - 1) : s[k] # "\n"}
        starts == {i \in 1..Len(s) : Stars(i) /\ ends(i) # {}}
        i == Least(starts)
        j == Least(ends(i))
    IN IF starts = {} THEN s
       ELSE SubSeq(s, 1, i - 1) \o <<open>> \o SubSeq(s, i + n, j - 1)
            \o <<close>> \o Emphasis(SubSeq(s, j + n, Len(s)), n, open, close)

\* .replace(/^\* (.+)$/gim, '<li>$1</li>') on one line
Bullet(line) ==
    IF Len(line) >= 3 /\ line[1] = "*" /\ line[2] = " "
    THEN <<"<li>">> \o SubSeq(line, 3, Len(line)) \o <<"</li>">>
    ELSE line

\* .replace(/(<li>.*<\/li>)/s, '<ul>$1</ul>'): once, from the first <li> to
\* the last </li>
WrapList(s) ==
    LET i == Least({k \in 1..Len(s) : s[k] = "<li>"})
        j == Greatest({k \in (i + 1)..Len(s) : s[k] = "</li>"})
    IN IF i = 0 \/ j = 0 THEN s
       ELSE SubSeq(s, 1, i - 1) \o <<"<ul>">> \o SubSeq(s, i, j)
            \o <<"</ul>">> \o SubSeq(s, j + 1, Len(s))

\* Where "[text](url)" that opens at b ends: <<the "]", the ")">>, or
\* <<0, 0>>.  The text has no "]", the url no ")" and at least one piece.
LinkEnd(s, b, minText) ==
    LET j == Least({m \in (b + 1)..Len(s) : s[m] = "]"})
        k == Least({m \in (j + 2)..Len(s) : s[m] = ")"})
    IN IF /\ b <= Len(s) /\ s[b] = "["
          /\ j # 0 /\ j - b - 1 >= minText
          /\ j + 1 <= Len(s) /\ s[j + 1] = "("
          /\ k >= j + 3
       THEN <<j, k>> ELSE <<0, 0>>

\* .replace(/!\[([^\]]*)\]\(([^)]+)\)/gim, '<img src="$2" alt="$1" />')
RECURSIVE Images(_)
Images(s) ==
    LET starts == {i \in 1..Len(s) :
                      s[i] = "!" /\ LinkEnd(s, i + 1, 0) # <<0, 0>>}
        i == Least(starts)
        e == LinkEnd(s, i + 1, 0)
    IN IF starts = {} THEN s
       ELSE SubSeq(s, 1, i - 1) \o <<"<img src=\"">>
            \o SubSeq(s, e[1] + 2, e[2] - 1) \o <<"\" alt=\"">>
            \o SubSeq(s, i + 2, e[1] - 1) \o <<"\" />">>
            \o Images(SubSeq(s, e[2] + 1, Len(s)))

\* .replace(/\[([^\]]+)\]\(([^)]+)\)/gim,
\*          '<a href="$2" target="_blank" rel="noopener noreferrer">$1</a>')
RECURSIVE Links(_)
Links(s) ==
    LET starts == {i \in 1..Len(s) : LinkEnd(s, i, 1) # <<0, 0>>}
        i == Least(starts)
        e == LinkEnd(s, i, 1)
    IN IF starts = {} THEN s
       ELSE SubSeq(s, 1, i - 1) \o <<"<a href=\"">>
            \o SubSeq(s, e[1] + 2, e[2] - 1)
            \o <<"\" target=\"_blank\" rel=\"noopener noreferrer\">">>
            \o SubSeq(s, i + 1, e[1] - 1) \o <<"</a>">>
            \o Links(SubSeq(s, e[2] + 1, Len(s)))

\* .replace(/\n\n/gim, '</p><p>')
RECURSIVE ParagraphBreaks(_)
ParagraphBreaks(s) ==
    IF s = <<>> THEN <<>>
    ELSE IF Len(s) >= 2 /\ s[1] = "\n" /\ s[2] = "\n"
    THEN <<"</p>", "<p>">> \o ParagraphBreaks(SubSeq(s, 3, Len(s)))
    ELSE <<s[1]>> \o ParagraphBreaks(Tail(s))

\* .replace(/\n/gim, '<br>')
LineBreaks(s) == [i \in 1..Len(s) |-> IF s[i] = "\n" THEN "<br>" ELSE s[i]]

\* .replace(/<p>(<ul>.*?<\/ul>)<\/p>/gs, '$1')
RECURSIVE UnwrapLists(_)
UnwrapLists(s) ==
    LET ends(i) == {j \in (i + 2)..(Len(s) - 1) :
                       s[j] = "</ul>" /\ s[j + 1] = "</p>"}
        starts == {i \in 1..(Len(s) - 1) :
                      s[i] = "<p>" /\ s[i + 1] = "<ul>" /\ ends(i) # {}}
        i == Least(starts)
        j == Least(ends(i))
    IN IF starts = {} THEN s
       ELSE SubSeq(s, 1, i - 1) \o SubSeq(s, i + 1, j)
            \o UnwrapLists(SubSeq(s, j + 2, Len(s)))

\* .replace(/^---$/gim, '<hr>')
HorizontalRules(s) ==
    EachLine(LAMBDA l : IF l = <<"---">> THEN <<"<hr>">> ELSE l, s)

\* The conversion of the `if (includes ...)` block
MarkdownToHtml(s) ==
    LET inline == Emphasis(Emphasis(Headings(s), 2, "<strong>", "</strong>"),
                           1, "<em>", "</em>")
        lists == WrapList(EachLine(Bullet, inline))
        breaks == LineBreaks(ParagraphBreaks(Links(Images(lists))))
        html == HorizontalRules(UnwrapLists(breaks))
    IN IF html # <<>> /\ html[1] \in HtmlPieces THEN html
       ELSE <<"<p>">> \o html \o <<"</p>">>

\* cleanContent: the body of the articleCreate request
ArticleBody(row) ==
    LET content == IF Truthy(row.content) THEN row.content ELSE <<>>
        stripped == StripFrontMatter(content)
        filled == IF IsBlank(stripped) THEN TitleParagraph(row.title)
                  ELSE stripped
    IN IF LooksLikeMarkdown(filled) THEN MarkdownToHtml(filled) ELSE filled

\* ------------------------------------------------------ publishToShopify
\* What an articleCreate mutation can do: create the article, report
\* userErrors, report top-level GraphQL errors, return no article and no
\* errors, or throw
ArticleOutcomes == {"article", "userErrors", "errors", "empty", "throw"}

\* One error for every response without an article
ArticleErrorUnclassified(response) == "Blog publish failed"

\* The error publishToShopify returns for an articleCreate that gave no
\* article: userErrors first, then top-level errors, then the missing
\* article; an exception is mapped by the catch block
ArticleError(response) ==
    CASE response = "userErrors" -> "Shopify API Error"
      [] response = "errors" -> "GraphQL Error"
      [] response = "empty" -> "Shopify API returned no article data"
      [] OTHER -> "Blog publish failed"

\* status: shopSettings.postAsDraft ? "draft" : "published"
LocalStatus(postAsDraft) == IF postAsDraft THEN draft ELSE published

\* The isPublished flag of the articleCreate request of publishToShopify
PublishOneIsPublished(postAsDraft) == TRUE

\* The isPublished flag of the articleCreate request of publishAllToShopify
PublishAllIsPublished(postAsDraft) == ~postAsDraft

\* A lookup by row id alone
findBlogPostAnyShop(posts, shop, id) == {r \in DOMAIN posts : r = id}

\* databaseStore.findBlogPost: the row with this id that belongs to the shop
findBlogPost(posts, shop, id) == {r \in BlogsOf(posts, shop) : r = id}

\* action, _action = publishToShopify.  readThrows: getShopSettings or
\* findBlogPost throws (both are called before the try block); blogCreate:
\* what the blogCreate mutation does when the outblog blog is missing;
\* response: what the articleCreate mutation does; dbThrows: updateBlogPost
\* throws.
PublishOne(shop, blogId, readThrows, blogCreate, response, dbThrows) ==
    /\ Idle
    /\ Cardinality(ArticlesOf(articles, blogId)) < MaxArticles
    /\ LET call == [NoCall EXCEPT !.op = "publishToShopify", !.shop = shop,
                                  !.blogId = blogId]
           creates == IF HasOutblogBlog(shop) THEN 0 ELSE 1
           flag == PublishOneIsPublished(dbSettings[shop].postAsDraft)
           article == NewArticle(articles, shop, blogId, flag)
           asked == [call EXCEPT !.containerCreates = creates,
                                 !.blogInput = IF creates = 1
                                               THEN PublishOneBlogInput
                                               ELSE NoBlogInput,
                                 !.submitted = <<blogId>>,
                                 !.responses = <<response>>,
                                 !.isPublished = <<flag>>,
                                 !.image = ArticleImage(dbPosts[blogId]),
                                 !.body = ArticleBody(dbPosts[blogId])]
       IN IF readThrows
          THEN /\ lastCall' = [call EXCEPT !.threw = TRUE]
               /\ UNCHANGED <<dbPosts, articles, containers>>
          ELSE IF ~HasSettings(dbSettings, shop)
          THEN /\ lastCall' = [call EXCEPT !.error = "Shop settings not found"]
               /\ UNCHANGED <<dbPosts, articles, containers>>
          ELSE IF findBlogPost(dbPosts, shop, blogId) = {}
          THEN /\ lastCall' = [call EXCEPT !.error = "Blog post not found"]
               /\ UNCHANGED <<dbPosts, articles, containers>>
          ELSE IF ~HasOutblogBlog(shop) /\ blogCreate # "blog"
          THEN /\ lastCall' = [call EXCEPT !.containerCreates = 1,
                                  !.blogInput = PublishOneBlogInput,
                                  !.error = IF blogCreate = "userErrors"
                                            THEN "blogCreate userErrors"
                                            ELSE "blogCreate failed"]
               /\ UNCHANGED <<dbPosts, articles, containers>>
          ELSE /\ containers' = [containers EXCEPT ![shop] = @ + creates]
               /\ IF response = "article"
                  THEN /\ articles' = articles \cup {article}
                       /\ IF dbThrows
                          THEN /\ dbPosts' = dbPosts
                               /\ lastCall' = [asked EXCEPT
                                                 !.error = "Blog publish failed"]
                          ELSE /\ dbPosts' = updateBlogPost(dbPosts, shop, blogId,
                                     [shopifyArticleId |-> article.id,
                                      status |-> LocalStatus(
                                          dbSettings[shop].postAsDraft)], now)
                               /\ lastCall' = [asked EXCEPT !.success = TRUE,
                                                            !.count = 1]
                  ELSE /\ UNCHANGED <<dbPosts, articles>>
                       /\ lastCall' = [asked EXCEPT
                                         !.error = ArticleError(response)]
    /\ UNCHANGED <<dbSettings, nextPostId, memShops>>
    /\ now' = now
    /\ UNCHANGED inflight

\* --------------------------------------------------- publishAllToShopify
\* What an iteration of the loop can meet: the article is created, the
\* response has userErrors, the response has neither userErrors nor an
\* article (top-level errors, or a null article), the mutation throws, or
\* the article is created and updateBlogPost throws
BulkOutcomes == {"article", "userErrors", "malformed", "throw", "dbThrow"}

\* The loop over every post of the shop, published or not
AllBlogs(posts, shop) == SortedIds(BlogsOf(posts, shop))

\* shopSettings.blogs.filter((blog) => !blog.shopifyArticleId)
UnpublishedBlogs(posts, shop) ==
    SortedIds({id \in BlogsOf(posts, shop) : ~Truthy(posts[id].shopifyArticleId)})

\* A loop that a validation error ends as well
AbortsOnUserErrors(outcome) == outcome \in {"throw", "dbThrow", "userErrors"}

\* An iteration that leaves the loop with an exception
Aborts(outcome) == outcome \in {"throw", "dbThrow"}

\* The loop of publishAllToShopify after its first k iterations over the
\* rows `todo`: the rows, the destination's articles, publishedCount, the
\* requests sent and whether an iteration threw
RECURSIVE BulkLoop(_, _, _, _, _, _)
BulkLoop(todo, responses, k, shop, postAsDraft, t) ==
    IF k = 0
    THEN [posts |-> dbPosts, arts |-> articles, count |-> 0,
          submitted |-> <<>>, flags |-> <<>>, aborted |-> FALSE]
    ELSE LET prev == BulkLoop(todo, responses, k - 1, shop, postAsDraft, t)
             flag == PublishAllIsPublished(postAsDraft)
             article == NewArticle(prev.arts, shop, todo[k], flag)
             created == responses[k] \in {"article", "dbThrow"}
             \* if (!createArticleData.data?.articleCreate?.userErrors?.length)
             noUserErrors == responses[k] \in {"article", "malformed"}
             sentOne == [prev EXCEPT
                           !.submitted = Append(@, todo[k]),
                           !.flags = Append(@, flag),
                           !.arts = IF created THEN @ \cup {article} ELSE @]
         IN IF prev.aborted THEN prev
            ELSE IF Aborts(responses[k])
            THEN [sentOne EXCEPT !.aborted = TRUE]
            ELSE IF noUserErrors
            THEN [sentOne EXCEPT
                    !.count = @ + 1,
                    !.posts = updateBlogPost(@, shop, todo[k],
                                 [shopifyArticleId |->
                                     IF created THEN article.id ELSE Undefined,
                                  status |-> LocalStatus(postAsDraft)], t)]
            ELSE sentOne

\* action, _action = publishAllToShopify.  readThrows: getShopSettings
\* throws (it is called before the try block); blogCreate: what the
\* blogCreate mutation does when the outblog blog is missing; responses:
\* what each iteration of the loop meets.
PublishAll(shop, readThrows, blogCreate, responses) ==
    /\ Idle
    /\ \A id \in BlogsOf(dbPosts, shop) :
          Cardinality(ArticlesOf(articles, id)) < MaxArticles
    /\ LET call == [NoCall EXCEPT !.op = "publishAllToShopify", !.shop = shop]
           todo == UnpublishedBlogs(dbPosts, shop)
           creates == IF HasOutblogBlog(shop) THEN 0 ELSE 1
           \* outblogBlog.node is a blog
           haveBlog == HasOutblogBlog(shop) \/ blogCreate = "blog"
           end == BulkLoop(todo, responses, Len(todo), shop,
                           dbSettings[shop].postAsDraft, now)
           sentResponses == SubSeq(responses, 1, Len(end.submitted))
       IN IF readThrows
          THEN /\ lastCall' = [call EXCEPT !.threw = TRUE]
               /\ UNCHANGED <<dbPosts, articles, containers>>
          ELSE IF ~HasSettings(dbSettings, shop)
          THEN /\ lastCall' = [call EXCEPT !.error = "Shop settings not found"]
               /\ UNCHANGED <<dbPosts, articles, containers>>
          ELSE IF ~HasOutblogBlog(shop) /\ blogCreate = "throw"
          THEN /\ lastCall' = [call EXCEPT !.containerCreates = 1,
                                  !.blogInput = PublishAllBlogInput,
                                  !.error = "blogCreate failed"]
               /\ UNCHANGED <<dbPosts, articles, containers>>
          ELSE IF ~haveBlog /\ Len(todo) > 0
          THEN \* outblogBlog.node.id throws in the first iteration
               /\ lastCall' = [call EXCEPT !.containerCreates = 1,
                                  !.blogInput = PublishAllBlogInput,
                                  !.error = "blogCreate failed"]
               /\ UNCHANGED <<dbPosts, articles, containers>>
          ELSE /\ containers' = [containers EXCEPT ![shop] =
                                    IF blogCreate = "blog" THEN @ + creates ELSE @]
               /\ dbPosts' = end.posts
               /\ articles' = end.arts
               /\ lastCall' = [call EXCEPT
                                 !.containerCreates = creates,
                                 !.blogInput = IF creates = 1
                                               THEN PublishAllBlogInput
                                               ELSE NoBlogInput,
                                 !.submitted = end.submitted,
                                 !.responses = sentResponses,
                                 !.isPublished = end.flags,
                                 !.count = end.count,
                                 !.success = ~end.aborted,
                                 !.error = IF end.aborted
                                           THEN "Bulk publish failed" ELSE "none"]
    /\ UNCHANGED <<dbSettings, nextPostId, memShops>>
    /\ now' = now
    /\ UNCHANGED inflight

\* ------------------------------------------------------------- /api/cron
\* process.env.CRON_SECRET when it is set
CronSecret == <<"s3cr3t">>

\* The values of process.env.CRON_SECRET: unset, or set
CronEnvs == {Undefined, CronSecret}

\* What a request can carry as its secret: none (searchParams.get and
\* formData.get give null), the configured one, another one
Secrets == {Null, CronSecret, <<"guess">>}

\* The comparison with != in place of !==: null and undefined are equal
SecretMismatchLoose(secret, env) ==
    secret # env /\ {secret, env} # {Null, Undefined}

\* if (cronSecret !== process.env.CRON_SECRET)
SecretMismatch(secret, env) == secret # env

\* loader of /api/cron (GET)
CronLoader(env, secret) ==
    /\ Idle
    /\ lastCall' = [NoCall EXCEPT !.op = "cronLoader",
                       !.secret = secret, !.env = env,
                       !.http = IF SecretMismatch(secret, env) THEN 401 ELSE 200,
                       !.error = IF SecretMismatch(secret, env)
                                 THEN "Unauthorized"
                                 ELSE "Cron sync not available"]
    /\ UNCHANGED inflight
    /\ UNCHANGED <<now, dbSettings, dbPosts, nextPostId, memShops, articles,
                   containers>>

\* action of /api/cron (POST)
CronAction(env, secret) ==
    /\ Idle
    /\ lastCall' = [NoCall EXCEPT !.op = "cronAction",
                       !.secret = secret, !.env = env,
                       !.http = IF SecretMismatch(secret, env) THEN 401 ELSE 200,
                       !.error = IF SecretMismatch(secret, env)
                                 THEN "Unauthorized"
                                 ELSE "Cron sync not available"]
    /\ UNCHANGED inflight
    /\ UNCHANGED <<now, dbSettings, dbPosts, nextPostId, memShops, articles,
                   containers>>

\* ------------------------------------------------ webhook app/uninstalled
\* MemoryStore.deleteShopSettings: this.shops.delete(shop)
deleteShopSettings(shops, shop) ==
    [s \in DOMAIN shops \ {shop} |-> shops[s]]

\* action of webhooks.app.uninstalled: deletes the shop from the MemoryStore
Uninstalled(shop) ==
    /\ Idle
    /\ memShops' = deleteShopSettings(memShops, shop)
    /\ lastCall' = [NoCall EXCEPT !.op = "uninstalled", !.shop = shop,
                                  !.success = TRUE]
    /\ UNCHANGED inflight
    /\ UNCHANGED <<now, dbSettings, dbPosts, nextPostId, articles, containers>>

\* ------------------------------------------------------------------ Next
\* Inputs are drawn only where the handler reads them: the posts of a
\* response only when the status is 200, the outcome of a store write only
\* when the write is reached, the outcome of blogCreate only when the
\* outblog blog is missing.

\* The requests that connect a shop
SetupRequest ==
    \/ \E shop \in Shops : Loader(shop)
    \/ \E shop \in Shops, apiKey \in ApiKeys, postAsDraft \in BOOLEAN,
          outcome \in ValidateOutcomes :
            \E dbThrows \in IF outcome = "valid" THEN BOOLEAN ELSE {FALSE} :
                SaveApiKey(shop, apiKey, postAsDraft, outcome, dbThrows)

\* The requests that sync a shop
SyncRequest ==
    \E shop \in Shops, readThrows \in BOOLEAN :
       \E outcome \in IF readThrows \/ CredentialMissing(dbSettings, shop)
                      THEN {200} ELSE FetchOutcomes :
          \E upstream \in IF /\ ~readThrows
                             /\ outcome = 200
                             /\ ~CredentialMissing(dbSettings, shop)
                          THEN Responses(UpstreamPosts, MaxFetch)
                          ELSE {<<>>} :
             \E failAt \in IF /\ ~readThrows
                              /\ outcome = 200
                              /\ ~CredentialMissing(dbSettings, shop)
                           THEN 0..(Len(upstream) + 1)
                           ELSE {0} :
                FetchBlogs(shop, readThrows, outcome, upstream, failAt)

\* The requests that talk to the destination store
PublishRequest ==
    \/ \E shop \in Shops, readThrows \in BOOLEAN :
          \E bad \in IF readThrows THEN {0}
                     ELSE 0..NumBatches(Len(BlogsWithArticleId(dbPosts, shop))) :
             \E failure \in IF bad = 0 THEN {"errors"} ELSE QueryFailures,
                existing \in IF bad = 0 /\ ~readThrows
                             THEN SUBSET {dbPosts[id].shopifyArticleId :
                                             id \in BlogsOf(dbPosts, shop)}
                             ELSE {{}} :
                \E dbThrows \in IF bad = 0 /\ ~readThrows
                                THEN BOOLEAN ELSE {FALSE} :
                    CheckLiveStatus(shop, readThrows, bad, failure, existing,
                                    dbThrows)
    \/ \E shop \in Shops, blogId \in 1..nextPostId, readThrows \in BOOLEAN :
          \E response \in IF readThrows THEN {"article"} ELSE ArticleOutcomes :
             \E blogCreate \in IF readThrows \/ HasOutblogBlog(shop)
                               THEN {"blog"} ELSE BlogCreateOutcomes,
                dbThrows \in IF response = "article" /\ ~readThrows
                             THEN BOOLEAN ELSE {FALSE} :
                PublishOne(shop, blogId, readThrows, blogCreate, response,
                           dbThrows)
    \/ \E shop \in Shops, readThrows \in BOOLEAN :
          \E blogCreate \in IF readThrows \/ HasOutblogBlog(shop)
                            THEN {"blog"} ELSE BlogCreateOutcomes,
             responses \in IF readThrows THEN {<<>>}
                           ELSE [1..Len(UnpublishedBlogs(dbPosts, shop))
                                    -> BulkOutcomes] :
                PublishAll(shop, readThrows, blogCreate, responses)

\* The requests to /api/cron
CronRequest ==
    \/ \E env \in CronEnvs, secret \in Secrets : CronLoader(env, secret)
    \/ \E env \in CronEnvs, secret \in Secrets : CronAction(env, secret)

\* The app/uninstalled webhook
Webhook == \E shop \in Shops : Uninstalled(shop)

\* The dashboard up to the sync and the webhook, from the state after
\* installation
Next ==
    \/ Tick
    \/ SetupRequest
    \/ SyncRequest
    \/ Webhook
    \/ Respond

Spec == Init /\ [][Next]_vars

\* The routes outside the dashboard next to the requests that connect a shop
CronNext ==
    \/ Tick
    \/ SetupRequest
    \/ CronRequest
    \/ Webhook
    \/ Respond

CronSpec == Init /\ [][CronNext]_vars

\* ------------------------------------------------------- a synced shop
\* The posts of the sync that precedes the publish requests
SyncedPosts ==
    << CHOOSE p \in UpstreamPosts : p.id = <<"e1">>,
       CHOOSE p \in UpstreamPosts : p.id = <<"e3">> >>

\* The state after saveApiKey and a complete fetchBlogs of SyncedPosts for
\* shop s1, with either value of postAsDraft
Synced ==
    /\ now = 1
    /\ \E postAsDraft \in BOOLEAN :
          dbSettings = upsertShopSettings(
                          upsertShopSettings(<< >>, "s1",
                              [apiKey |-> <<"k1">>, postAsDraft |-> postAsDraft]),
                          "s1", [lastSyncAt |-> 1])
    /\ dbPosts = UpsertLoop(<< >>, 1, "s1", SyncedPosts, Len(SyncedPosts), 1).posts
    /\ nextPostId = UpsertLoop(<< >>, 1, "s1", SyncedPosts, Len(SyncedPosts), 1).id
    /\ memShops = << >>
    /\ articles = {}
    /\ containers = [s \in Shops |-> 0]
    /\ lastCall = NoCall
    /\ inflight = NoInflight

\* The publish requests and the webhook, from a synced shop
PublishNext ==
    \/ PublishRequest
    \/ Webhook
    \/ Respond

PublishSpec == Synced /\ [][PublishNext]_vars

\* ------------------------------------------------------------ two shops
\* A second shop, installed next to those of Shops
OtherShop == "s2"

BothShops == Shops \cup {OtherShop}

\* The post each of the two shops has synced
OwnedPost == CHOOSE p \in UpstreamPosts : p.id = <<"e1">>

\* The state after s1 was connected and synced one post (row 1) and, when the
\* second shop is installed, s2 was connected and synced the post of the
\* same slug (row 2)
TwoShops ==
    \E installed \in BOOLEAN :
       LET connected(settings, shop) ==
               upsertShopSettings(
                   upsertShopSettings(settings, shop,
                       [apiKey |-> <<"k1">>, postAsDraft |-> FALSE]),
                   shop, [lastSyncAt |-> 1])
           first == UpsertLoop(<< >>, 1, "s1", <<OwnedPost>>, 1, 1)
           second == UpsertLoop(first.posts, first.id, OtherShop,
                                <<OwnedPost>>, 1, 1)
       IN /\ now = 1
          /\ dbSettings = IF installed
                          THEN connected(connected(<< >>, "s1"), OtherShop)
                          ELSE connected(<< >>, "s1")
          /\ dbPosts = IF installed THEN second.posts ELSE first.posts
          /\ nextPostId = IF installed THEN second.id ELSE first.id
          /\ memShops = << >>
          /\ articles = {}
          /\ containers = [s \in BothShops |-> 0]
          /\ lastCall = NoCall
          /\ inflight = NoInflight

\* publishToShopify requests of either shop, for any row id
OwnershipRequest ==
    \E shop \in BothShops, blogId \in 1..nextPostId, readThrows \in BOOLEAN :
       \E response \in IF readThrows THEN {"article"} ELSE ArticleOutcomes :
          \E blogCreate \in IF readThrows \/ HasOutblogBlog(shop)
                            THEN {"blog"} ELSE BlogCreateOutcomes,
             dbThrows \in IF response = "article" /\ ~readThrows
                          THEN BOOLEAN ELSE {FALSE} :
             PublishOne(shop, blogId, readThrows, blogCreate, response,
                        dbThrows)

TwoShopNext ==
    \/ OwnershipRequest
    \/ Respond

TwoShopSpec == TwoShops /\ [][TwoShopNext]_vars


\* ------------------------------------------- one post, any content
\* What the upstream can give a post as content, title and featured_image
FrontMatter == <<"---", "\n", "t", ":", "v", "\n", "---", "\n">>

Contents ==
    {Undefined, <<>>, <<" ">>, <<"\n", " ">>, FrontMatter,
     FrontMatter \o <<" ">>, FrontMatter \o <<"c1">>, <<"c1">>,
     <<"#", " ", "H">>, <<"#", "#", "#", "#", "#", " ", "H">>,
     <<"*", " ", "a", "\n", "*", " ", "b">>,
     <<"*", "*", "b", "*", "*", " ", "*", "i", "*">>,
     <<"!", "[", "a", "]", "(", "u", ")">>,
     <<"a", "\n", "\n", "b", "\n", "c", "#">>,
     <<"a", "\n", "---", " ", "b", "---", "c">>}

Titles ==
    {<<>>, <<"X">>, <<"*", "a", "*">>, <<"*", "*", "a", "*", "*">>,
     <<"[", "a", "]", "(", "u", ")">>, <<"C", "#">>, <<"a", " ", "*">>}

FeaturedImages ==
    {Undefined, Null, <<>>, <<"not-a-url">>,
     <<"https", ":", "//", "i", "/1">>, <<"http", ":", "//", "i", "/1">>,
     <<"HTTPS", ":", "//", "i", "/1">>, <<"ftp", ":", "//", "i", "/1">>,
     <<"mailto", ":", "a@i">>, <<"//", "i", "/1">>, <<"https", ":", "//">>,
     <<"i", "/1">>, <<" ", "https", ":", "//", "i", "/1">>}

ArticlePost(content, title, image) ==
    [id |-> <<"e1">>, slug |-> <<"a">>, title |-> title, content |-> content,
     meta_description |-> Undefined, featured_image |-> image,
     categories |-> Undefined, tags |-> Undefined]

ArticlePosts ==
    {ArticlePost(c, <<"X">>, Undefined) : c \in Contents}
    \cup {ArticlePost(<<>>, t, Undefined) : t \in Titles}
    \cup {ArticlePost(<<"c1">>, <<"T">>, i) : i \in FeaturedImages}
    \cup {ArticlePost(<<" ">>, <<>>, <<"not-a-url">>)}

\* The state after saveApiKey and a fetchBlogs that stored one post of
\* ArticlePosts for shop s1
OnePost ==
    /\ now = 1
    /\ dbSettings = upsertShopSettings(
                       upsertShopSettings(<< >>, "s1",
                           [apiKey |-> <<"k1">>, postAsDraft |-> FALSE]),
                       "s1", [lastSyncAt |-> 1])
    /\ \E post \in ArticlePosts :
          /\ dbPosts = UpsertLoop(<< >>, 1, "s1", <<post>>, 1, 1).posts
          /\ nextPostId = UpsertLoop(<< >>, 1, "s1", <<post>>, 1, 1).id
    /\ memShops = << >>
    /\ articles = {}
    /\ containers = [s \in Shops |-> 0]
    /\ lastCall = NoCall
    /\ inflight = NoInflight

\* publishToShopify requests for the post
ArticleRequest ==
    \E blogId \in 1..nextPostId, readThrows \in BOOLEAN :
       \E response \in IF readThrows THEN {"article"} ELSE ArticleOutcomes :
          \E blogCreate \in IF readThrows \/ HasOutblogBlog("s1")
                            THEN {"blog"} ELSE BlogCreateOutcomes,
             dbThrows \in IF response = "article" /\ ~readThrows
                          THEN BOOLEAN ELSE {FALSE} :
             PublishOne("s1", blogId, readThrows, blogCreate, response,
                        dbThrows)

ArticleNext ==
    \/ ArticleRequest
    \/ Respond

ArticleSpec == OnePost /\ [][ArticleNext]_vars


\* ------------------------------------------- a connected shop that syncs
\* The state after saveApiKey for shop s1
Connected ==
    /\ now = 1
    /\ dbSettings = upsertShopSettings(<< >>, "s1",
                        [apiKey |-> <<"k1">>, postAsDraft |-> FALSE])
    /\ dbPosts = << >>
    /\ nextPostId = 1
    /\ memShops = << >>
    /\ articles = {}
    /\ containers = [s \in Shops |-> 0]
    /\ lastCall = NoCall
    /\ inflight = NoInflight

\* fetchBlogs requests that the source API answers with a list of posts;
\* the loop can fail at any upsert, and so can the settings update
ResyncRequest ==
    \E upstream \in Responses(UpstreamPosts, MaxFetch) :
       \E failAt \in 0..(Len(upstream) + 1) :
          FetchBlogs("s1", FALSE, 200, upstream, failAt)

ResyncNext ==
    \/ Tick
    \/ ResyncRequest
    \/ Respond

ResyncSpec == Connected /\ [][ResyncNext]_vars


\* ------------------------------------- publish requests, step by step
\* Each await of a publish handler is a step, so that two requests of the
\* same shop can interleave.  The steps leave lastCall alone; what a
\* request did is in inflight.
Returned(p) == inflight[p].pc = "done"

OtherVars == <<now, dbSettings, nextPostId, memShops, lastCall>>

\* A publishToShopify or publishAllToShopify request arrives: the handler
\* reads the shop's settings with its posts (and the post, for
\* publishToShopify)
PublishArrives(p, op, blogId) ==
    /\ inflight[p].pc = "idle"
    /\ LET req == [NoRequest EXCEPT
                     !.op = op, !.shop = "s1", !.blogId = blogId,
                     !.after = {q \in Procs : Returned(q)},
                     !.todo = UnpublishedBlogs(dbPosts, "s1")]
       IN inflight' = [inflight EXCEPT ![p] =
             IF ~HasSettings(dbSettings, "s1")
             THEN [req EXCEPT !.pc = "done",
                              !.error = "Shop settings not found"]
             ELSE IF op = "publishToShopify"
                     /\ findBlogPost(dbPosts, "s1", blogId) = {}
             THEN [req EXCEPT !.pc = "done", !.error = "Blog post not found"]
             ELSE [req EXCEPT !.pc = "getBlogs"]]
    /\ UNCHANGED <<dbPosts, articles, containers>>
    /\ UNCHANGED OtherVars

\* await admin.graphql(query getBlogs): the handler looks for the blog
GetBlogs(p) ==
    /\ inflight[p].pc = "getBlogs"
    /\ inflight' = [inflight EXCEPT
                      ![p].sawBlog = HasOutblogBlog(inflight[p].shop),
                      ![p].pc = IF HasOutblogBlog(inflight[p].shop)
                                THEN "articles" ELSE "blogCreate"]
    /\ UNCHANGED <<dbPosts, articles, containers>>
    /\ UNCHANGED OtherVars

\* await admin.graphql(mutation createBlog), sent when the query found no
\* blog.  publishToShopify returns on userErrors; publishAllToShopify goes
\* on with whatever came back.
BlogCreate(p, outcome) ==
    /\ inflight[p].pc = "blogCreate"
    /\ LET req == [inflight[p] EXCEPT !.blogCreates = @ + 1,
                                      !.blogOutcome = outcome]
       IN inflight' = [inflight EXCEPT ![p] =
             IF outcome = "throw"
             THEN [req EXCEPT !.pc = "done", !.error = "blogCreate failed"]
             ELSE IF outcome = "userErrors" /\ req.op = "publishToShopify"
             THEN [req EXCEPT !.pc = "done",
                              !.error = "blogCreate userErrors"]
             ELSE [req EXCEPT !.pc = "articles"]]
    /\ containers' = [containers EXCEPT ![inflight[p].shop] =
                         IF outcome = "blog" THEN @ + 1 ELSE @]
    /\ UNCHANGED <<dbPosts, articles>>
    /\ UNCHANGED OtherVars

\* The rest of the handler: the articleCreate mutations and the row
\* updates.  outblogBlog.node.id throws when no blog came back.
CreateArticles(p, responses) ==
    /\ inflight[p].pc = "articles"
    /\ LET req == inflight[p]
           shop == req.shop
           haveBlog == req.sawBlog \/ req.blogOutcome = "blog"
           todo == IF req.op = "publishToShopify" THEN <<req.blogId>>
                   ELSE req.todo
           end == BulkLoop(todo, responses, Len(todo), shop,
                           dbSettings[shop].postAsDraft, now)
           flag == PublishOneIsPublished(dbSettings[shop].postAsDraft)
           article == NewArticle(articles, shop, req.blogId, flag)
       IN IF ~haveBlog /\ Len(todo) > 0
          THEN /\ inflight' = [inflight EXCEPT ![p].pc = "done",
                                  ![p].error = "blogCreate failed"]
               /\ UNCHANGED <<dbPosts, articles>>
          ELSE IF req.op = "publishAllToShopify"
          THEN /\ dbPosts' = end.posts
               /\ articles' = end.arts
               /\ inflight' = [inflight EXCEPT ![p].pc = "done",
                                  ![p].success = ~end.aborted,
                                  ![p].error = IF end.aborted
                                               THEN "Bulk publish failed"
                                               ELSE "none"]
          ELSE IF responses[1] = "article"
          THEN /\ articles' = articles \cup {article}
               /\ dbPosts' = updateBlogPost(dbPosts, shop, req.blogId,
                                [shopifyArticleId |-> article.id,
                                 status |-> LocalStatus(
                                     dbSettings[shop].postAsDraft)], now)
               /\ inflight' = [inflight EXCEPT ![p].pc = "done",
                                               ![p].success = TRUE]
          ELSE /\ UNCHANGED <<dbPosts, articles>>
               /\ inflight' = [inflight EXCEPT ![p].pc = "done",
                                  ![p].error = ArticleError(responses[1])]
    /\ UNCHANGED containers
    /\ UNCHANGED OtherVars

\* The steps of the publish requests
PublishStep ==
    \/ \E p \in Procs, blogId \in DOMAIN dbPosts :
          PublishArrives(p, "publishToShopify", blogId)
    \/ \E p \in Procs : PublishArrives(p, "publishAllToShopify", 0)
    \/ \E p \in Procs : GetBlogs(p)
    \/ \E p \in Procs, outcome \in BlogCreateOutcomes : BlogCreate(p, outcome)
    \/ \E p \in Procs :
          \E responses \in
                IF inflight[p].op = "publishToShopify"
                THEN [1..1 -> {"article", "userErrors"}]
                ELSE [1..Len(inflight[p].todo) -> {"article", "userErrors"}] :
             CreateArticles(p, responses)

PublishRaceSpec == Synced /\ [][PublishStep]_vars


\* ---------------------------------------- sync requests, step by step
\* A fetchBlogs request arrives: the handler reads the settings and gets
\* the list of posts from the source API
SyncArrives(p, upstream) ==
    /\ inflight[p].pc = "idle"
    /\ LET req == [NoRequest EXCEPT
                     !.op = "fetchBlogs", !.shop = "s1",
                     !.after = {q \in Procs : Returned(q)},
                     !.posts = upstream]
       IN inflight' = [inflight EXCEPT ![p] =
             IF CredentialMissing(dbSettings, "s1")
             THEN [req EXCEPT !.pc = "done",
                              !.error = "API key not configured"]
             ELSE [req EXCEPT !.pc = "upsert"]]
    /\ UNCHANGED <<dbSettings, dbPosts, nextPostId>>
    /\ UNCHANGED <<now, memShops, articles, containers, lastCall>>

\* The post the loop is at
CurrentData(p) == SyncData(inflight[p].posts[inflight[p].next])

\* await databaseStore.upsertBlogPost(...), when prisma sends the upsert as
\* one INSERT ... ON CONFLICT statement
UpsertNative(p) ==
    /\ inflight[p].pc = "upsert"
    /\ inflight[p].next <= Len(inflight[p].posts)
    /\ dbPosts' = upsertBlogPost(dbPosts, inflight[p].shop, CurrentData(p),
                                 nextPostId, now)
    /\ nextPostId' = IF RowsWithSlug(dbPosts, inflight[p].shop,
                                     CurrentData(p).slug) = {}
                     THEN nextPostId + 1 ELSE nextPostId
    /\ inflight' = [inflight EXCEPT ![p].next = @ + 1]
    /\ UNCHANGED dbSettings
    /\ UNCHANGED <<now, memShops, articles, containers, lastCall>>

\* The same upsert when prisma reads the row first and then updates or
\* inserts: the read
UpsertRead(p) ==
    /\ inflight[p].pc = "upsert"
    /\ inflight[p].next <= Len(inflight[p].posts)
    /\ inflight' = [inflight EXCEPT
                      ![p].found = RowsWithSlug(dbPosts, inflight[p].shop,
                                                CurrentData(p).slug),
                      ![p].pc = "write"]
    /\ UNCHANGED <<dbSettings, dbPosts, nextPostId>>
    /\ UNCHANGED <<now, memShops, articles, containers, lastCall>>

\* ... and the write: an update of the row that was read, or an insert,
\* which the unique index on (shopSettingsId, slug) rejects when another
\* request has inserted the slug since the read; the exception ends the
\* handler in its catch block
UpsertWrite(p) ==
    /\ inflight[p].pc = "write"
    /\ LET shop == inflight[p].shop
           data == CurrentData(p)
           taken == RowsWithSlug(dbPosts, shop, data.slug) # {}
       IN IF inflight[p].found = {} /\ taken
          THEN /\ inflight' = [inflight EXCEPT ![p].pc = "done",
                                  ![p].error = "Database error"]
               /\ UNCHANGED <<dbPosts, nextPostId>>
          ELSE /\ dbPosts' = upsertBlogPost(dbPosts, shop, data, nextPostId,
                                            now)
               /\ nextPostId' = IF taken THEN nextPostId ELSE nextPostId + 1
               /\ inflight' = [inflight EXCEPT ![p].next = @ + 1,
                                               ![p].found = {},
                                               ![p].pc = "upsert"]
    /\ UNCHANGED dbSettings
    /\ UNCHANGED <<now, memShops, articles, containers, lastCall>>

\* await databaseStore.upsertShopSettings(shop, {lastSyncAt: new Date()})
\* after the loop, and the response
SyncReturns(p) ==
    /\ inflight[p].pc = "upsert"
    /\ inflight[p].next > Len(inflight[p].posts)
    /\ dbSettings' = upsertShopSettings(dbSettings, inflight[p].shop,
                                        [lastSyncAt |-> now])
    /\ inflight' = [inflight EXCEPT ![p].pc = "done", ![p].success = TRUE]
    /\ UNCHANGED <<dbPosts, nextPostId>>
    /\ UNCHANGED <<now, memShops, articles, containers, lastCall>>

\* The steps of the sync requests
SyncStep ==
    \/ \E p \in Procs, upstream \in Responses(UpstreamPosts, MaxFetch) :
          SyncArrives(p, upstream)
    \/ \E p \in Procs : UpsertNative(p)
    \/ \E p \in Procs : UpsertRead(p)
    \/ \E p \in Procs : UpsertWrite(p)
    \/ \E p \in Procs : SyncReturns(p)

SyncRaceSpec == Connected /\ [][SyncStep]_vars


\* ------------------------------------------- every dashboard operation
\* saveApiKey, fetchBlogs, publishToShopify, publishAllToShopify and
\* checkLiveStatus in any order, for a connected shop whose source API
\* lists some of SyncedPosts; no store read fails
LifecycleRequest ==
    \/ \E postAsDraft \in BOOLEAN, outcome \in ValidateOutcomes :
          SaveApiKey("s1", <<"k1">>, postAsDraft, outcome, FALSE)
    \/ \E upstream \in Responses(Range(SyncedPosts), Len(SyncedPosts)) :
          \E failAt \in 0..(Len(upstream) + 1) :
             FetchBlogs("s1", FALSE, 200, upstream, failAt)
    \/ \E blogId \in DOMAIN dbPosts, response \in {"article", "userErrors"} :
          PublishOne("s1", blogId, FALSE, "blog", response, FALSE)
    \/ \E responses \in [1..Len(UnpublishedBlogs(dbPosts, "s1"))
                           -> {"article", "userErrors"}] :
          PublishAll("s1", FALSE, "blog", responses)
    \/ \E existing \in SUBSET {dbPosts[id].shopifyArticleId :
                                 id \in BlogsOf(dbPosts, "s1")} :
          CheckLiveStatus("s1", FALSE, 0, "errors", existing, FALSE)

LifecycleNext ==
    \/ LifecycleRequest
    \/ Respond

LifecycleSpec == Connected /\ [][LifecycleNext]_vars

\* ------------------------------------------------- many published posts
\* The numbers of published posts a shop starts with: one, two, and around
\* a full batch
PublishedCounts ==
    {1, 2, batchSize - 1, batchSize, batchSize + 1, MaxPublished}

\* The i-th post of a large upstream response
ManyPost(i) ==
    [id |-> <<"m", ToString(i)>>, slug |-> <<"p", ToString(i)>>,
     title |-> <<"T">>, content |-> <<"c1">>, meta_description |-> Undefined,
     featured_image |-> Undefined, categories |-> Undefined,
     tags |-> Undefined]

\* The state after s1 (postAsDraft false) synced n posts and published each
\* of them with publishToShopify
ManyPublished ==
    \E n \in PublishedCounts :
       /\ now = 1
       /\ dbSettings = upsertShopSettings(
                          upsertShopSettings(<< >>, "s1",
                              [apiKey |-> <<"k1">>, postAsDraft |-> FALSE]),
                          "s1", [lastSyncAt |-> 1])
       /\ dbPosts = [i \in 1..n |->
                        PrismaUpdateRow(
                            PrismaCreateRow(i, "s1", SyncData(ManyPost(i)), 1),
                            [shopifyArticleId |-> ArticleId(i, 1),
                             status |-> LocalStatus(FALSE)], 1)]
       /\ nextPostId = n + 1
       /\ memShops = << >>
       /\ articles = {NewArticle({}, "s1", i, PublishOneIsPublished(FALSE)) :
                         i \in 1..n}
       /\ containers = [s \in Shops |-> 1]
       /\ lastCall = NoCall
       /\ inflight = NoInflight

\* checkLiveStatus requests; the destination still has every article, none,
\* or those of the first batch
BatchRequest ==
    \E shop \in Shops, readThrows \in BOOLEAN :
       \E bad \in IF readThrows THEN {0}
                  ELSE 0..NumBatches(Len(BlogsWithArticleId(dbPosts, shop))) :
          \E failure \in IF bad = 0 THEN {"errors"} ELSE QueryFailures,
             kept \in IF bad = 0 /\ ~readThrows
                      THEN {0, batchSize, nextPostId} ELSE {0} :
             \E dbThrows \in IF bad = 0 /\ ~readThrows
                             THEN BOOLEAN ELSE {FALSE} :
                CheckLiveStatus(shop, readThrows, bad, failure,
                    {dbPosts[id].shopifyArticleId :
                        id \in {r \in BlogsOf(dbPosts, shop) : r <= kept}},
                    dbThrows)

BatchNext ==
    \/ BatchRequest
    \/ Respond

BatchSpec == ManyPublished /\ [][BatchNext]_vars

\* ======================================================================
\* Properties
\* ======================================================================

\* The positions of a sequence of responses that hold one of `kinds`
Positions(responses, kinds) ==
    {i \in 1..Len(responses) : responses[i] \in kinds}

\* C1: in every reachable state each BlogPost has a shopifyArticleId if and
\* only if its status is published.
C1_ArticleIdIffPublished ==
    \A id \in DOMAIN dbPosts :
        Truthy(dbPosts[id].shopifyArticleId) <=> dbPosts[id].status = published

\* C2: after a checkLiveStatus that returns success, every post whose
\* article id was sent and not returned as an existing Article has no
\* shopifyArticleId and status draft in the DatabaseStore.
C2_MissingAreCleared ==
    (lastCall.op = "checkLiveStatus" /\ lastCall.success)
        => \A id \in lastCall.missing :
              /\ ~Truthy(dbPosts[id].shopifyArticleId)
              /\ dbPosts[id].status = draft

\* C3: publishToShopify submits articleCreate with isPublished equal to the
\* negation of the shop's postAsDraft, and after a successful call the
\* visibility of the created article agrees with the status stored locally.
C3_VisibilityFollowsPostAsDraft ==
    (lastCall.op = "publishToShopify" /\ lastCall.submitted # <<>>)
        => /\ lastCall.isPublished = <<~dbSettings[lastCall.shop].postAsDraft>>
           /\ lastCall.success =>
                \A a \in articles :
                    a.id = dbPosts[lastCall.submitted[1]].shopifyArticleId
                        => (a.isPublished
                              <=> dbPosts[a.post].status = published)

\* C4: after the app/uninstalled webhook has been handled for a shop, the
\* DatabaseStore holds no ShopSettings and no BlogPost of that shop.
C4_UninstallDeletesShopData ==
    lastCall.op = "uninstalled"
        => /\ ~HasSettings(dbSettings, lastCall.shop)
           /\ BlogsOf(dbPosts, lastCall.shop) = {}

\* The value a column holds when an upsert replaces it by v
Stored(v) == IF v = Undefined THEN Null ELSE v

\* C5: upserting a post whose slug already exists in the shop replaces
\* every field of the upsert's payload by the payload's value (an absent
\* value leaves the column empty) and keeps createdAt.
C5_UpsertReplacesAllButCreatedAt ==
    \A shop \in Shops, p \in UpstreamPosts :
        LET data == SyncData(p)
            after == upsertBlogPost(dbPosts, shop, data, nextPostId, now)
        IN \A r \in RowsWithSlug(dbPosts, shop, data.slug) :
              /\ \A f \in DOMAIN data : after[r][f] = Stored(data[f])
              /\ after[r].createdAt = dbPosts[r].createdAt

\* lastSyncAt of a shop, NoTime when the shop has no ShopSettings
LastSyncAt(settings, shop) ==
    IF HasSettings(settings, shop) THEN settings[shop].lastSyncAt ELSE NoTime

\* C6: fetchBlogs for a shop without ShopSettings, or whose apiKey is absent
\* or empty, fails with the credential-missing error, sends no request to
\* the source content API and writes nothing.
C6_NoCredentialNoWrites ==
    [][(lastCall'.op = "fetchBlogs" /\ lastCall' # lastCall
          /\ ~lastCall'.threw
          /\ (~HasSettings(dbSettings, lastCall'.shop)
                \/ dbSettings[lastCall'.shop].apiKey \in {Null, <<>>}))
         => /\ ~lastCall'.success
            /\ lastCall'.error = "API key not configured"
            /\ lastCall'.sourceCalls = 0
            /\ dbPosts' = dbPosts
            /\ dbSettings' = dbSettings]_vars

\* C6 witness: a fetchBlogs refused for a shop that has posts and whose
\* apiKey was saved empty.
C6_Witness ==
    /\ lastCall.op = "fetchBlogs"
    /\ lastCall.error = "API key not configured"
    /\ HasSettings(dbSettings, "s1")
    /\ dbSettings["s1"].apiKey = <<>>
    /\ BlogsOf(dbPosts, "s1") # {}

\* C7: fetchBlogs writes lastSyncAt at most once per call and only after
\* the upsert of the last returned post; a call that fails leaves
\* lastSyncAt as it was.
C7_LastSyncAtOnlyAfterFullSync ==
    [][lastCall'.op = "fetchBlogs"
         => /\ lastCall'.syncWrites <= 1
            /\ lastCall'.syncWrites = 1
                  => lastCall'.upserts = lastCall'.fetched /\ lastCall'.success
            /\ ~lastCall'.success
                  => LastSyncAt(dbSettings', lastCall'.shop)
                        = LastSyncAt(dbSettings, lastCall'.shop)
            /\ LastSyncAt(dbSettings', lastCall'.shop)
                  # LastSyncAt(dbSettings, lastCall'.shop)
                  => lastCall'.syncWrites = 1]_vars

\* C7 witness: a fetchBlogs of two posts that failed at the second upsert,
\* in a shop that never completed a sync.
C7_Witness ==
    /\ lastCall.op = "fetchBlogs"
    /\ ~lastCall.success
    /\ lastCall.fetched = 2
    /\ lastCall.upserts = 1
    /\ BlogsOf(dbPosts, "s1") # {}
    /\ dbSettings["s1"].lastSyncAt = NoTime

\* C8: in publishAllToShopify a validation error on a post does not end the
\* loop: when no iteration throws, every unpublished post of the shop is
\* submitted, the rows of the posts with a validation error are unchanged,
\* and the count is the number of posts without a validation error.
C8_ValidationErrorDoesNotAbort ==
    [][(/\ lastCall'.op = "publishAllToShopify"
        /\ lastCall' # lastCall
        /\ ~lastCall'.threw
        /\ lastCall'.error \notin {"Shop settings not found", "blogCreate failed"}
        /\ Positions(lastCall'.responses, {"throw", "dbThrow"}) = {})
         => /\ lastCall'.success
            /\ lastCall'.submitted = UnpublishedBlogs(dbPosts, lastCall'.shop)
            /\ \A i \in Positions(lastCall'.responses, {"userErrors"}) :
                  dbPosts'[lastCall'.submitted[i]] = dbPosts[lastCall'.submitted[i]]
            /\ lastCall'.count
                  = Len(lastCall'.submitted)
                      - Cardinality(Positions(lastCall'.responses, {"userErrors"}))
       ]_vars

\* C8 witness: a publishAllToShopify over two unpublished posts whose first
\* post met a validation error and whose second post was created.
C8_Witness ==
    /\ lastCall.op = "publishAllToShopify"
    /\ lastCall.success
    /\ lastCall.responses = <<"userErrors", "article">>
    /\ lastCall.count = 1
    /\ ~Truthy(dbPosts[lastCall.submitted[1]].shopifyArticleId)
    /\ Truthy(dbPosts[lastCall.submitted[2]].shopifyArticleId)

\* C9: in publishAllToShopify a post whose articleCreate response has no
\* article (and no userErrors) is not counted in publishedCount and its row
\* is not modified.
C9_MalformedNotCounted ==
    [][lastCall'.op = "publishAllToShopify"
         => /\ \A i \in Positions(lastCall'.responses, {"malformed"}) :
                  dbPosts'[lastCall'.submitted[i]] = dbPosts[lastCall'.submitted[i]]
            /\ lastCall'.count
                  <= Cardinality(Positions(lastCall'.responses,
                                           {"article", "dbThrow"}))]_vars

C11_CronSyncsAllShops ==
    (/\ lastCall.op \in {"cronLoader", "cronAction"}
     /\ lastCall.env = CronSecret
     /\ lastCall.secret = CronSecret)
        => \A shop \in Shops :
              (HasSettings(dbSettings, shop) /\ Truthy(dbSettings[shop].apiKey))
                  => dbSettings[shop].lastSyncAt = now

\* The five action types of the dashboard
ActionTypes ==
    {"saveApiKey", "fetchBlogs", "checkLiveStatus", "publishToShopify",
     "publishAllToShopify"}

\* C12: whatever a collaborator does (a store read or write, the source API
\* call, a Shopify GraphQL call), each of the five action types returns a
\* result; a result that is not a success carries an error, and no exception
\* leaves the handler.
C12_NoExceptionEscapes ==
    lastCall.op \in ActionTypes
        => /\ ~lastCall.threw
           /\ lastCall.success \/ lastCall.error # "none"

\* C13: publishToShopify for a shop without ShopSettings, or with a blogId
\* that is not the id of a post of that shop (the id of another shop's post
\* included), fails with a not-found error, sends nothing to the destination
\* store and changes no post.
C13_NotFoundSendsNothing ==
    [][(/\ lastCall'.op = "publishToShopify"
        /\ ~lastCall'.threw
        /\ \/ ~HasSettings(dbSettings, lastCall'.shop)
           \/ lastCall'.blogId \notin BlogsOf(dbPosts, lastCall'.shop))
         => /\ ~lastCall'.success
            /\ lastCall'.error
                  = IF HasSettings(dbSettings, lastCall'.shop)
                    THEN "Blog post not found" ELSE "Shop settings not found"
            /\ lastCall'.containerCreates = 0
            /\ lastCall'.submitted = <<>>
            /\ <<articles', containers', dbPosts'>>
                  = <<articles, containers, dbPosts>>]_vars

\* C13 witness: a publishToShopify refused as not found although blogId is
\* the id of a post, because the post belongs to another shop.
C13_Witness ==
    /\ lastCall.op = "publishToShopify"
    /\ lastCall.error = "Blog post not found"
    /\ lastCall.blogId \in DOMAIN dbPosts
    /\ dbPosts[lastCall.blogId].shop # lastCall.shop

\* C14: when the articleCreate response of publishToShopify carries
\* userErrors, or top-level GraphQL errors, or neither errors nor an article,
\* the call fails with the error of that kind (validation, protocol, empty
\* response) and the post's row is unchanged.
C14_RejectedArticleLeavesPost ==
    [][(/\ lastCall'.op = "publishToShopify"
        /\ lastCall'.responses # <<>>
        /\ lastCall'.responses[1] \in {"userErrors", "errors", "empty"})
         => /\ ~lastCall'.success
            /\ lastCall'.error
                  = CASE lastCall'.responses[1] = "userErrors"
                           -> "Shopify API Error"
                      [] lastCall'.responses[1] = "errors" -> "GraphQL Error"
                      [] OTHER -> "Shopify API returned no article data"
            /\ dbPosts' = dbPosts
            /\ articles' = articles]_vars

\* C14 witness: a publishToShopify of a published post that was answered
\* with top-level GraphQL errors; the post keeps its article id.
C14_Witness ==
    /\ lastCall.op = "publishToShopify"
    /\ lastCall.responses = <<"errors">>
    /\ lastCall.error = "GraphQL Error"
    /\ Truthy(dbPosts[lastCall.blogId].shopifyArticleId)
    /\ dbPosts[lastCall.blogId].status = published

\* The batches of ids, as the set of positions <<b, i>> that hold id
SentAt(sent, id) ==
    {p \in UNION {{<<b, i>> : i \in 1..Len(sent[b])} : b \in 1..Len(sent)} :
        sent[p[1]][p[2]] = id}

\* C15: for a shop with n >= 1 posts that have a shopifyArticleId, a
\* checkLiveStatus in which no query fails sends exactly ceil(n/50) nodes
\* queries of at most 50 ids each, and every article id is in exactly one
\* of them.
C15_BatchesOfFifty ==
    [][(lastCall'.op = "checkLiveStatus" /\ lastCall'.success)
         => LET ids == {dbPosts[r].shopifyArticleId :
                          r \in {x \in BlogsOf(dbPosts, lastCall'.shop) :
                                   Truthy(dbPosts[x].shopifyArticleId)}}
                n == Cardinality(ids)
                sent == lastCall'.sent
            IN n >= 1
                 => /\ 50 * Len(sent) >= n
                    /\ 50 * (Len(sent) - 1) < n
                    /\ \A b \in 1..Len(sent) : Len(sent[b]) <= 50
                    /\ \A b \in 1..Len(sent) : Range(sent[b]) \subseteq ids
                    /\ \A id \in ids : Cardinality(SentAt(sent, id)) = 1]_vars

\* C15 witness: a checkLiveStatus over at least 60 published posts that
\* sent two queries, the first of 50 ids and the second of the rest.
C15_Witness ==
    /\ lastCall.op = "checkLiveStatus"
    /\ lastCall.success
    /\ Cardinality(DOMAIN dbPosts) >= 60
    /\ Len(lastCall.sent) = 2
    /\ Len(lastCall.sent[1]) = 50
    /\ Len(lastCall.sent[2]) = Cardinality(DOMAIN dbPosts) - 50

\* The featuredImage values of FeaturedImages that are absolute http or
\* https URLs
AbsoluteHttpUrls ==
    {<<"https", ":", "//", "i", "/1">>, <<"http", ":", "//", "i", "/1">>,
     <<"HTTPS", ":", "//", "i", "/1">>, <<" ", "https", ":", "//", "i", "/1">>}

\* C16: a publishToShopify whose read, container and article creation and
\* row update all succeed returns success and records shopifyArticleId
\* whatever the post's featuredImage is; the request carries an image
\* reference exactly when featuredImage is an absolute http(s) URL, and
\* that reference is the featuredImage itself.
C16_InvalidImageDropped ==
    [][\A blogId \in DOMAIN dbPosts :
          PublishOne("s1", blogId, FALSE, "blog", "article", FALSE)
            => /\ lastCall'.success
               /\ Truthy(dbPosts'[blogId].shopifyArticleId)
               /\ Cardinality(articles') = Cardinality(articles) + 1
               /\ (lastCall'.image # NoImage)
                     <=> (dbPosts[blogId].featuredImage \in AbsoluteHttpUrls)
               /\ lastCall'.image # NoImage
                     => lastCall'.image.url = dbPosts[blogId].featuredImage]_vars

\* C16 witness: a successful publishToShopify of a post whose featuredImage
\* is "not-a-url": no image reference was sent and the article id is stored.
C16_Witness ==
    /\ lastCall.op = "publishToShopify"
    /\ lastCall.success
    /\ dbPosts[lastCall.blogId].featuredImage = <<"not-a-url">>
    /\ lastCall.image = NoImage
    /\ Truthy(dbPosts[lastCall.blogId].shopifyArticleId)

\* C17: a saveApiKey whose store write works stores apiKey and postAsDraft
\* in the shop's settings and returns success exactly when the validation
\* response is OK with valid = true; every saveApiKey that does not succeed
\* returns an error and leaves all settings and all posts as they were.
C17_SavedIffValid ==
    [][lastCall'.op = "saveApiKey" =>
       \A shop \in Shops, apiKey \in ApiKeys, postAsDraft \in BOOLEAN,
          outcome \in ValidateOutcomes, dbThrows \in BOOLEAN :
          SaveApiKey(shop, apiKey, postAsDraft, outcome, dbThrows)
            => IF outcome = "valid" /\ ~dbThrows
               THEN /\ lastCall'.success
                    /\ HasSettings(dbSettings', shop)
                    /\ dbSettings'[shop].apiKey = apiKey
                    /\ dbSettings'[shop].postAsDraft = postAsDraft
                    /\ dbPosts' = dbPosts
               ELSE /\ ~lastCall'.success
                    /\ lastCall'.error # "none"
                    /\ dbSettings' = dbSettings
                    /\ dbPosts' = dbPosts]_vars

\* C17 witness: a saveApiKey that the upstream answered with valid = false,
\* for a shop that has a stored key and synced posts.
C17_Witness ==
    /\ lastCall.op = "saveApiKey"
    /\ ~lastCall.success
    /\ lastCall.error = "Invalid API key"
    /\ HasSettings(dbSettings, lastCall.shop)
    /\ Truthy(dbSettings[lastCall.shop].apiKey)
    /\ BlogsOf(dbPosts, lastCall.shop) # {}

\* C18: a publishToShopify for a post that already has a shopifyArticleId
\* creates no article on the destination.
C18_RepublishCreatesNoArticle ==
    [][(/\ lastCall'.op = "publishToShopify"
        /\ lastCall'.blogId \in DOMAIN dbPosts
        /\ Truthy(dbPosts[lastCall'.blogId].shopifyArticleId))
         => articles' = articles]_vars

\* The rows and next row id of two states of the posts table are the same
\* but for the columns `except`
SameRows(a, b, except) ==
    /\ a.id = b.id
    /\ DOMAIN a.posts = DOMAIN b.posts
    /\ \A r \in DOMAIN a.posts :
          \A f \in DOMAIN a.posts[r] \ except : a.posts[r][f] = b.posts[r][f]

\* What fetchBlogs, run to the end with this response at time t, makes of
\* the posts table
FullRun(posts, id, shop, upstream, t) ==
    UpsertLoop(posts, id, shop, upstream, Len(upstream), t)

BlankContents ==
    {Null, Undefined, <<>>, <<" ">>, <<"\n", " ">>, FrontMatter,
     FrontMatter \o <<" ">>}

\* C20: the body that publishToShopify submits for a post whose content is
\* absent, empty or white space after front-matter stripping is exactly
\* <p>, the title (Untitled when the title is empty), </p>.
C20_BlankContentGivesTitleParagraph ==
    (/\ lastCall.op = "publishToShopify"
     /\ lastCall.submitted # <<>>
     /\ dbPosts[lastCall.blogId].content \in BlankContents)
      => lastCall.body
            = <<"<p>">>
              \o (IF dbPosts[lastCall.blogId].title = <<>> THEN Untitled
                  ELSE dbPosts[lastCall.blogId].title)
              \o <<"</p>">>

\* C21: the articleCreate requests of a publishAllToShopify are for posts
\* of the shop that had no shopifyArticleId when the call began, one
\* request per post at most, in the order of the unpublished posts; a call
\* that returns success has sent one for every such post; and after a call
\* in which every article was created no post of the shop is left without
\* a shopifyArticleId, so the next call sends none.
C21_OneRequestPerUnpublishedPost ==
    [][lastCall'.op = "publishAllToShopify" =>
        \A todo \in {UnpublishedBlogs(dbPosts, lastCall'.shop)},
           sent \in {lastCall'.submitted} :
           /\ Len(sent) <= Len(todo)
           /\ \A i \in 1..Len(sent) : sent[i] = todo[i]
           /\ \A i, j \in 1..Len(sent) : sent[i] = sent[j] => i = j
           /\ \A i \in 1..Len(sent) :
                 ~Truthy(dbPosts[sent[i]].shopifyArticleId)
           /\ lastCall'.success => sent = todo
           /\ (lastCall'.success
                 /\ Range(lastCall'.responses) \subseteq {"article"})
                => UnpublishedBlogs(dbPosts', lastCall'.shop) = <<>>]_vars

\* C21 witness: a publishAllToShopify that found every post of the shop
\* published and sent no articleCreate request.
C21_Witness ==
    /\ lastCall.op = "publishAllToShopify"
    /\ lastCall.success
    /\ lastCall.submitted = <<>>
    /\ BlogsOf(dbPosts, lastCall.shop) # {}
    /\ \A id \in BlogsOf(dbPosts, lastCall.shop) :
          Truthy(dbPosts[id].shopifyArticleId)

\* C22: a publishToShopify or publishAllToShopify sends a blogCreate
\* mutation only when no blog of the shop has the handle outblog, the
\* mutation asks for title Outblog and handle outblog in both, and a call
\* whose blogCreate reports userErrors returns failure and submits no
\* article.
C22_SameContainerStep ==
    [][(/\ lastCall'.op \in {"publishToShopify", "publishAllToShopify"}
        /\ lastCall'.containerCreates = 1)
         => /\ ~HasOutblogBlog(lastCall'.shop)
            /\ lastCall'.blogInput = PublishOneBlogInput
            /\ \A blogId \in DOMAIN dbPosts, response \in ArticleOutcomes :
                  PublishOne(lastCall'.shop, blogId, FALSE, "userErrors",
                             response, FALSE)
                    => ~lastCall'.success /\ lastCall'.submitted = <<>>
            /\ \A responses \in [1..Len(UnpublishedBlogs(dbPosts,
                                        lastCall'.shop)) -> BulkOutcomes] :
                  PublishAll(lastCall'.shop, FALSE, "userErrors", responses)
                    => ~lastCall'.success /\ lastCall'.submitted = <<>>]_vars

\* C23: a publish request sends at most one blogCreate mutation, and only
\* after its own blogs query found no outblog blog; a request that arrives
\* after another request of the shop has returned with the blog created
\* sends none.  (That two overlapping requests both send one is the
\* witness.)
C23_CreateOnlyWhenSeenMissing ==
    \A p \in Procs :
       /\ inflight[p].blogCreates <= 1
       /\ inflight[p].blogCreates = 1 => ~inflight[p].sawBlog
       /\ \A q \in inflight[p].after :
             inflight[q].blogOutcome = "blog"
                => inflight[p].blogCreates = 0
                     /\ (inflight[p].pc \in {"articles", "done"}
                           /\ inflight[p].error = "none" => inflight[p].sawBlog)

\* C23 witness: two publish requests of the same shop have both found the
\* blog missing and both sent a blogCreate mutation.
C23_Witness ==
    /\ \A p \in Procs :
          /\ inflight[p].shop = "s1"
          /\ ~inflight[p].sawBlog
          /\ inflight[p].blogCreates = 1
          /\ inflight[p].blogOutcome = "blog"
    /\ {inflight[p].op : p \in Procs}
          = {"publishToShopify", "publishAllToShopify"}
    /\ containers["s1"] = 2

\* The columns that fetchBlogs gives to upsertBlogPost
ContentFields ==
    {"externalId", "slug", "title", "content", "metaDescription",
     "featuredImage", "categories", "tags"}

\* C24: while two fetchBlogs requests of a shop run, no two rows have the
\* same shop and slug, and the content columns of every row are the
\* payload of one upsert: there is an upstream post whose payload the row
\* holds in every content column.
C24_OneRowPerSlugOneWriter ==
    /\ \A r1, r2 \in DOMAIN dbPosts :
          (dbPosts[r1].shop = dbPosts[r2].shop
             /\ dbPosts[r1].slug = dbPosts[r2].slug) => r1 = r2
    /\ \A r \in DOMAIN dbPosts :
          \E post \in UpstreamPosts :
             \A f \in ContentFields :
                dbPosts[r][f] = Stored(SyncData(post)[f])

\* C25: no step of saveApiKey, fetchBlogs, publishToShopify,
\* publishAllToShopify or checkLiveStatus removes a row of a shop that
\* keeps its ShopSettings or changes the row's shop or slug.
C25_PostsAreNeverDeleted ==
    [][\A r \in DOMAIN dbPosts :
          HasSettings(dbSettings', dbPosts[r].shop)
            => /\ r \in DOMAIN dbPosts'
               /\ dbPosts'[r].shop = dbPosts[r].shop
               /\ dbPosts'[r].slug = dbPosts[r].slug]_vars

\* C25 witness: a fetchBlogs whose response had one post has succeeded
\* for a shop that holds two posts: the post that the response did not
\* list is still stored.
C25_Witness ==
    /\ lastCall.op = "fetchBlogs"
    /\ lastCall.success
    /\ lastCall.fetched = 1
    /\ Cardinality(BlogsOf(dbPosts, lastCall.shop)) = 2

\* C26: a fetchBlogs keeps every row there was, with its id, its
\* shopifyArticleId and its status, so the rows that publishAllToShopify
\* would select among them are the same after the call as before.
C26_SyncKeepsPublishState ==
    [][lastCall'.op = "fetchBlogs" =>
        /\ \A r \in DOMAIN dbPosts :
              /\ r \in DOMAIN dbPosts'
              /\ dbPosts'[r].id = dbPosts[r].id
              /\ dbPosts'[r].shopifyArticleId = dbPosts[r].shopifyArticleId
              /\ dbPosts'[r].status = dbPosts[r].status
        /\ Range(UnpublishedBlogs(dbPosts', lastCall'.shop)) \cap DOMAIN dbPosts
              = Range(UnpublishedBlogs(dbPosts, lastCall'.shop))]_vars

\* C26 witness: a fetchBlogs has upserted both posts of a shop whose two
\* rows were there before, one of them published with an article id.
C26_Witness ==
    /\ lastCall.op = "fetchBlogs"
    /\ lastCall.success
    /\ lastCall.upserts = 2
    /\ Cardinality(BlogsOf(dbPosts, lastCall.shop)) = 2
    /\ \E r \in BlogsOf(dbPosts, lastCall.shop) :
          /\ Truthy(dbPosts[r].shopifyArticleId)
          /\ dbPosts[r].status = published

\* C27: after a checkLiveStatus that returns success, every post it
\* reported as no longer on the destination is among the posts that the
\* next publishAllToShopify selects (the posts without shopifyArticleId).
C27_DemotedIsSelectedAgain ==
    [][(lastCall'.op = "checkLiveStatus" /\ lastCall'.success)
         => lastCall'.missing
               \subseteq Range(UnpublishedBlogs(dbPosts', lastCall'.shop))]_vars

\* C28: a checkLiveStatus in which the nodes query of some batch reports
\* errors or throws returns failure and leaves every BlogPost as it was,
\* the posts that earlier batches of the call found missing included.
\* (The same holds when the row update after the loop throws.)
C28_FailedBatchWritesNothing ==
    [][(lastCall'.op = "checkLiveStatus" /\ lastCall'.sent # <<>>
          /\ lastCall'.error \in {"GraphQL error", "Failed to check live status"})
         => /\ ~lastCall'.success
            /\ dbPosts' = dbPosts]_vars

\* C28 witness: the second batch of a checkLiveStatus failed after the
\* first batch had found fifty posts missing, and those posts are still
\* published with their article ids.
C28_Witness ==
    /\ lastCall.op = "checkLiveStatus"
    /\ ~lastCall.success
    /\ lastCall.error = "GraphQL error"
    /\ Len(lastCall.sent) = 2
    /\ Cardinality(lastCall.missing) = batchSize
    /\ \A r \in lastCall.missing :
          Truthy(dbPosts[r].shopifyArticleId) /\ dbPosts[r].status = published

====
